---- MODULE Spec2Model ----
(***************************************************************************)
(* Model of the WiFi-RemoteID mesh mapper: the detection store             *)
(* (tracked_pairs, detection_history), the FAA registry cache, the stale   *)
(* sweep of the headless variant and the TAK relay client.                 *)
(*                                                                         *)
(* Python dicts are functions whose DOMAIN is the set of keys present, so  *)
(* that "key in d" and d.get(key, default) keep their meaning.             *)
(***************************************************************************)
EXTENDS Integers, Sequences, FiniteSets, TLC

VARIABLES
    variant,            \* which program runs: mesh-mapper.py or headless-mesh-mapper.py
    tracked_pairs,      \* mac -> detection dict
    detection_history,  \* list of copies of stored detections
    FAA_CACHE,          \* insertion-ordered dict (mac, remote_id) -> payload
    faa_cache_file,     \* the rows of faa_cache.csv after its header, as csv wrote them
    now,                \* time.time()
    current_time,       \* MeshMapper.run: the time read at the top of the main loop
    deleting,           \* MeshMapper.run: the mac found stale, between the test and the del
    mac_addresses,      \* MeshMapper.run: keys of the sweep still to visit
    last,               \* observation: the most recent call, its argument and the state it found
    last_mac_by_port,   \* serial port -> the mac of the latest frame of that port that had one
    feed_log,           \* observation: the frames read from the feeds, with the store each found
    ser,                \* serial_reader(port): its local ser, None or an open port
    serial_connected_status, \* port -> bool
    serial_objs,        \* the ports that have an open serial object registered
    openable,           \* environment: port -> whether the device is there to be opened
    global_tls_context, \* None, or the SSLContext made from the identity bundle
    cot_messenger,      \* the client _cot_messenger sends through, None without one
    datagrams,          \* the CoT events sent by the TAKUDPClient, in order
    calls,              \* feed thread -> the detection of its update_detection call between
                        \* the reads of store and cache and the write of the store
    issued,             \* observation: feed thread -> the detections it has handed over
    TAK_enabled,        \* TAK_SETTINGS['enabled'] with a TAKClient behind _cot_messenger
    sock,               \* TAKClient.sock: <<>> for None, or <<id>> of a connection
    retry_count,        \* TAKClient.retry_count
    self_max_retries,   \* TAKClient.max_retries, the constructor's argument
    wait,               \* TAKClient.connect: the sleep computed after the latest failure (0: none)
    connecting_lock,    \* TAKClient.connecting_lock: None or the thread holding it
    pc,                 \* thread -> where it is in its code
    ret,                \* thread -> where its call of connect() returns to
    attempt,            \* thread -> the attempt of the "for attempt" loop of send
    event,              \* thread -> the CoT event it is sending
    reachable,          \* environment: whether the TAK endpoint accepts connections
    live,               \* environment: the connections whose peer is still there
    opened,             \* environment: how many connections the endpoint has accepted
    disturbed,          \* observation: the endpoint was away or dropped a connection at some time
    wire,               \* environment: the events the endpoint received, in order
    SELECTED_PORTS,     \* form field ('port1', ...) -> the port chosen on the selection page
    readers,            \* port -> the serial_reader threads started for it (none returns)
    connect_loops,      \* the run_connect_loop threads started (none returns)
    kml                 \* port -> generate_kml's iterator over tracked_pairs.items() while
                        \* the port's reader is in that loop, <<>> otherwise

storeVars == <<tracked_pairs, detection_history, FAA_CACHE, faa_cache_file, last>>

sweepVars == <<current_time, mac_addresses, deleting>>

portVars == <<ser, serial_connected_status, serial_objs, openable>>

feedVars == <<last_mac_by_port, feed_log, portVars>>

clientVars == <<sock, retry_count, wait, connecting_lock>>

threadVars == <<pc, ret, attempt, event>>

netVars == <<reachable, live, opened, disturbed, wire>>

relayVars == <<clientVars, threadVars, netVars>>

messengerVars == <<global_tls_context, cot_messenger, datagrams>>

callVars == <<calls, issued>>

procVars == <<SELECTED_PORTS, readers, connect_loops>>

vars == <<variant, TAK_enabled, now, storeVars, sweepVars, feedVars, relayVars,
          messengerVars, callVars, self_max_retries, procVars, kml>>

-----------------------------------------------------------------------------
(* Bounds of the model *)

MaxHistory == 2      \* updates recorded per behaviour
MaxTicks == 3        \* clock ticks per behaviour
MaxRetryCount == 7   \* retry_count is counted up to here (the wait is capped from 6 on)
MaxOpened == 3       \* connections the endpoint accepts per behaviour
MaxFrames == 3       \* frames read from the feeds per behaviour
MaxCalls == 2        \* update_detection calls of one feed thread per behaviour
MaxRows == 3         \* rows of faa_cache.csv beyond which no registry refresh is asked for
MaxReaders == 3      \* serial_reader threads of one port beyond which no request is made
MaxLoops == 3        \* run_connect_loop threads beyond which the relay is not enabled again

(* Program constants *)

staleThreshold == 60

max_retries == -1    \* TAKClient default: retry for ever

send_retries == 2

backoff_factor == 2  \* TAKClient default 2.0

max_backoff == 60    \* TAKClient default 60.0

\* the clock advances in steps of half the threshold, so that an entry is seen
\* younger than, exactly as old as and older than the threshold
TickSeconds == staleThreshold \div 2

\* time.time() at start-up: epoch seconds, far beyond any threshold
StartTime == 10 * staleThreshold

-----------------------------------------------------------------------------
(* Python dict helpers *)

None == "None"

EmptyDict == [k \in {} |-> 0]

Get(d, k, default) == IF k \in DOMAIN d THEN d[k] ELSE default

Set(d, k, v) == (k :> v) @@ d

\* truthiness of a string-valued key: present, not None, not ""
\* mutant: a key that is present counts, whatever it holds
TruthyStr_Present(d, k) == k \in DOMAIN d

TruthyStr(d, k) == k \in DOMAIN d /\ d[k] # "" /\ d[k] # None

-----------------------------------------------------------------------------
(* FAA registry cache: FAA_CACHE / self.faa_cache.  A Python dict keeps    *)
(* insertion order, and the any-by-mac fallback takes the first entry in   *)
(* that order, so the cache is a sequence of rows with distinct keys.      *)

CacheRow(mac, remote_id, faa_data) ==
    [mac |-> mac, remote_id |-> remote_id, faa_response |-> faa_data]

CacheIndex(cache, mac, remote_id) ==
    {i \in 1..Len(cache) : cache[i].mac = mac /\ cache[i].remote_id = remote_id}

CacheHas(cache, mac, remote_id) == CacheIndex(cache, mac, remote_id) # {}

CacheGet(cache, mac, remote_id) ==
    cache[CHOOSE i \in CacheIndex(cache, mac, remote_id) : TRUE].faa_response

\* rows of this mac, in iteration order
CacheIndexByMac(cache, mac) == {i \in 1..Len(cache) : cache[i].mac = mac}

Min(S) == CHOOSE x \in S : \A y \in S : x <= y

\* for (c_mac, _), faa_data in FAA_CACHE.items(): if c_mac == mac: ...; break
CacheFirstByMac(cache, mac) == cache[Min(CacheIndexByMac(cache, mac))].faa_response

\* FAA_CACHE[key] = faa_data: an existing key keeps its place, a new key is added last
write_to_faa_cache(cache, mac, remote_id, faa_data) ==
    IF CacheHas(cache, mac, remote_id)
    THEN [i \in 1..Len(cache) |->
            IF cache[i].mac = mac /\ cache[i].remote_id = remote_id
            THEN CacheRow(mac, remote_id, faa_data)
            ELSE cache[i]]
    ELSE Append(cache, CacheRow(mac, remote_id, faa_data))

\* csv.DictWriter.writerow: a field is written as its text, None as the empty
\* field; csv.DictReader gives every field back as text
CsvField(v) == IF v = None THEN "" ELSE v

\* json.dumps / json.loads of a payload: the text of a JSON value and back
json_dumps(v) == <<"json", v>>

json_loads(text) == text[2]

\* write_to_faa_cache, the append to faa_cache.csv
AppendRow(file, mac, remote_id, faa_data) ==
    Append(file, [mac |-> CsvField(mac), remote_id |-> CsvField(remote_id),
                  faa_response |-> json_dumps(faa_data)])

\* the load at start-up: for row in reader: cache[(row['mac'], row['remote_id'])] =
\* json.loads(row['faa_response'])
RECURSIVE LoadRows(_, _)
LoadRows(file, cache) ==
    IF file = <<>> THEN cache
    ELSE LoadRows(Tail(file),
                  write_to_faa_cache(cache, Head(file).mac, Head(file).remote_id,
                                     json_loads(Head(file).faa_response)))

load_faa_cache(file) == LoadRows(file, <<>>)

\* the file a cache loaded at start-up came from
FileOf(cache) ==
    [i \in 1..Len(cache) |->
        [mac |-> cache[i].mac, remote_id |-> cache[i].remote_id,
         faa_response |-> json_dumps(cache[i].faa_response)]]

-----------------------------------------------------------------------------
(* update_detection, shared by both variants *)

valid_drone(detection) ==
    Get(detection, "drone_lat", 0) # 0 /\ Get(detection, "drone_long", 0) # 0

\* mutant: the altitude is reset instead of defaulted
FillDefaults_AltitudeReset(detection, t) ==
    ("last_update" :> t) @@ ("drone_altitude" :> 0) @@ detection @@
    ("drone_lat" :> 0) @@ ("drone_long" :> 0) @@
    ("pilot_lat" :> 0) @@ ("pilot_long" :> 0)

\* detection["drone_altitude"] = detection.get("drone_altitude", 0) ... last_update
FillDefaults(detection, t) ==
    ("last_update" :> t) @@ detection @@
    ("drone_lat" :> 0) @@ ("drone_long" :> 0) @@ ("drone_altitude" :> 0) @@
    ("pilot_lat" :> 0) @@ ("pilot_long" :> 0)

\* Preserve previous basic_id if new detection lacks one
PreserveBasicId(detection, store) ==
    LET mac == detection["mac"] IN
    IF /\ ~TruthyStr(detection, "basic_id")
       /\ mac \in DOMAIN store
       /\ TruthyStr(store[mac], "basic_id")
    THEN Set(detection, "basic_id", store[mac]["basic_id"])
    ELSE detection

\* Exact match if basic_id provided
EnrichExact(detection, cache) ==
    LET mac == detection["mac"]
        remote_id == Get(detection, "basic_id", None)
    IN IF TruthyStr(detection, "basic_id") /\ CacheHas(cache, mac, remote_id)
       THEN Set(detection, "faa_data", CacheGet(cache, mac, remote_id))
       ELSE detection

\* mutant: no any-by-mac fallback
EnrichByMac_Skipped(detection, cache) == detection

\* Fallback: any cached FAA data for this mac
EnrichByMac(detection, cache) ==
    LET mac == detection["mac"] IN
    IF "faa_data" \notin DOMAIN detection /\ CacheIndexByMac(cache, mac) # {}
    THEN Set(detection, "faa_data", CacheFirstByMac(cache, mac))
    ELSE detection

\* Fallback: last known FAA data in tracked_pairs
EnrichFromStore(detection, store) ==
    LET mac == detection["mac"] IN
    IF /\ "faa_data" \notin DOMAIN detection
       /\ mac \in DOMAIN store
       /\ "faa_data" \in DOMAIN store[mac]
    THEN Set(detection, "faa_data", store[mac]["faa_data"])
    ELSE detection

\* mutant: the store fallback runs before the any-by-mac fallback
Enrich_StoreFirst(detection, cache, store) ==
    EnrichByMac(EnrichFromStore(EnrichExact(detection, cache), store), cache)

Enrich(detection, cache, store) ==
    EnrichFromStore(EnrichByMac(EnrichExact(detection, cache), cache), store)

\* Always cache FAA data by MAC and current basic_id for fallback
FileAfterEnrich(detection, file) ==
    IF "faa_data" \in DOMAIN detection
    THEN AppendRow(file, detection["mac"], Get(detection, "basic_id", ""),
                   detection["faa_data"])
    ELSE file

\* mutant: the enriched record is not written back to the cache
CacheAfterEnrich_NoWriteBack(detection, cache) == cache

CacheAfterEnrich(detection, cache) ==
    IF "faa_data" \in DOMAIN detection
    THEN write_to_faa_cache(cache, detection["mac"], Get(detection, "basic_id", ""),
                            detection["faa_data"])
    ELSE cache

\* the record a valid-fix update stores
ValidFixRecord(detection, cache, store, t) ==
    Enrich(PreserveBasicId(FillDefaults(detection, t), store), cache, store)

\* what the call found: the previous entry of the mac (a list of 0 or 1 dicts)
PrevEntry(store, detection) ==
    IF "mac" \in DOMAIN detection /\ detection["mac"] \in DOMAIN store
    THEN <<store[detection["mac"]]>>
    ELSE <<>>

Observe(op, detection) ==
    last' = [op |-> op, detection |-> detection,
             prev |-> PrevEntry(tracked_pairs, detection), cache |-> FAA_CACHE]

\* lines 499-532 of mesh-mapper.py, 317-355 of headless-mesh-mapper.py
StoreValidFix(detection) ==
    LET rec == ValidFixRecord(detection, FAA_CACHE, tracked_pairs, now) IN
    /\ FAA_CACHE' = CacheAfterEnrich(rec, FAA_CACHE)
    /\ faa_cache_file' = FileAfterEnrich(rec, faa_cache_file)
    /\ tracked_pairs' = Set(tracked_pairs, detection["mac"], rec)
    /\ detection_history' = Append(detection_history, rec)

\* mesh-mapper.py lines 484-551: a no-fix detection is ignored entirely
StoreUpdate(detection) ==
    /\ Observe("update_detection", detection)
    /\ IF ~TruthyStr(detection, "mac") \/ ~valid_drone(detection)
       THEN UNCHANGED <<tracked_pairs, detection_history, FAA_CACHE, faa_cache_file>>
       ELSE StoreValidFix(detection)

\* update_detection of mesh-mapper.py while the relay is disabled (line 554 false)
update_detection(detection) ==
    /\ variant = "dashboard"
    /\ ~TAK_enabled
    /\ Len(detection_history) < MaxHistory
    /\ StoreUpdate(detection)
    /\ UNCHANGED <<variant, procVars, kml, self_max_retries, messengerVars, callVars, feedVars, TAK_enabled, now, sweepVars, relayVars>>

\* mutant: the history keeps the latest record only
MeshMapper_StoreUpdate_LatestOnly(detection) ==
    /\ Observe("update_detection", detection)
    /\ IF ~TruthyStr(detection, "mac")
       THEN UNCHANGED <<tracked_pairs, detection_history, FAA_CACHE, faa_cache_file>>
       ELSE IF ~valid_drone(detection)
       THEN /\ tracked_pairs' = Set(tracked_pairs, detection["mac"], detection)
            /\ detection_history' = <<detection>>
            /\ UNCHANGED <<FAA_CACHE, faa_cache_file>>
       ELSE StoreValidFix(detection)

\* headless-mesh-mapper.py lines 291-355: a no-fix detection is stored as it came
MeshMapper_StoreUpdate(detection) ==
    /\ Observe("update_detection", detection)
    /\ IF ~TruthyStr(detection, "mac")
       THEN UNCHANGED <<tracked_pairs, detection_history, FAA_CACHE, faa_cache_file>>
       ELSE IF ~valid_drone(detection)
       THEN /\ tracked_pairs' = Set(tracked_pairs, detection["mac"], detection)
            /\ detection_history' = Append(detection_history, detection)
            /\ UNCHANGED <<FAA_CACHE, faa_cache_file>>
       ELSE StoreValidFix(detection)

MeshMapper_update_detection(detection) ==
    /\ variant = "headless"
    /\ Len(detection_history) < MaxHistory
    /\ MeshMapper_StoreUpdate(detection)
    /\ UNCHANGED <<variant, procVars, kml, self_max_retries, messengerVars, callVars, feedVars, TAK_enabled, now, sweepVars, relayVars>>

-----------------------------------------------------------------------------
(* The feeds: serial_reader of both variants (one thread per port) and     *)
(* MeshMapper.zmq_message_handler of the headless variant.  A frame is the *)
(* JSON object of one line or message.                                     *)

Ports == {"ttyACM0", "ttyUSB0"}

\* mutant: one remembered mac for all ports
PortKey_Shared(port) == "any"

\* last_mac_by_port[port]
PortKey(port) == port

\* mutant: a heartbeat frame is dropped before its id is remembered
RememberMac_NotOfHeartbeat(memory, port, frame) ==
    IF "mac" \in DOMAIN frame /\ "heartbeat" \notin DOMAIN frame
    THEN Set(memory, PortKey(port), frame["mac"])
    ELSE memory

\* if 'mac' in detection: last_mac_by_port[port] = detection['mac'], for every
\* parsed frame, before the heartbeat test
RememberMac(memory, port, frame) ==
    IF "mac" \in DOMAIN frame THEN Set(memory, PortKey(port), frame["mac"])
    ELSE memory

\* if 'mac' in detection: remember it; elif port in last_mac_by_port: inherit it
InheritMac(frame, port) ==
    IF "mac" \in DOMAIN frame THEN frame
    ELSE IF PortKey(port) \in DOMAIN last_mac_by_port
    THEN Set(frame, "mac", last_mac_by_port[PortKey(port)])
    ELSE frame

\* if 'remote_id' in detection and 'basic_id' not in detection
CopyRemoteId(detection) ==
    IF "remote_id" \in DOMAIN detection /\ "basic_id" \notin DOMAIN detection
    THEN Set(detection, "basic_id", detection["remote_id"])
    ELSE detection

LogFrame(via, port, frame) ==
    feed_log' = Append(feed_log, [via |-> via, port |-> port, frame |-> frame,
                                  before |-> tracked_pairs, history |-> detection_history])

\* update_detection of the running variant, the relay disabled
Call_update_detection(detection) ==
    IF variant = "dashboard" THEN StoreUpdate(detection)
                             ELSE MeshMapper_StoreUpdate(detection)

\* serial_reader(port), top of the loop with ser None: serial.Serial(port, ...)
serial_open(port) ==
    /\ ser[port] = None
    /\ IF openable[port]
       THEN /\ ser' = [ser EXCEPT ![port] = "open"]
            /\ serial_connected_status' = Set(serial_connected_status, port, TRUE)
            /\ serial_objs' = serial_objs \cup {port}
       ELSE /\ serial_connected_status' = Set(serial_connected_status, port, FALSE)
            /\ UNCHANGED <<ser, serial_objs>>
    /\ last' = [op |-> "serial_open", detection |-> ("port" :> port), prev |-> <<>>,
                cache |-> FAA_CACHE]
    /\ UNCHANGED <<variant, procVars, kml, self_max_retries, messengerVars, callVars, TAK_enabled, now, tracked_pairs, detection_history, FAA_CACHE, faa_cache_file,
                   last_mac_by_port, feed_log, openable, sweepVars, relayVars>>

\* a handler that forgets "ser = None" and the pop: the port stays registered
DiscardPort_KeepsRegistered(port) ==
    /\ serial_connected_status' = Set(serial_connected_status, port, FALSE)
    /\ UNCHANGED <<ser, serial_objs>>

\* the two except clauses of the loop body: status False, ser.close(), ser = None,
\* serial_objs.pop(port, None), time.sleep(1)
DiscardPort(port) ==
    /\ ser' = [ser EXCEPT ![port] = None]
    /\ serial_connected_status' = Set(serial_connected_status, port, FALSE)
    /\ serial_objs' = serial_objs \ {port}

\* ser.in_waiting / ser.readline() raises SerialException or OSError
serial_io_error(port) ==
    /\ ser[port] = "open"
    /\ DiscardPort(port)
    /\ last' = [op |-> "serial_io_error", detection |-> ("port" :> port), prev |-> <<>>,
                cache |-> FAA_CACHE]
    /\ UNCHANGED <<variant, procVars, kml, self_max_retries, messengerVars, callVars, TAK_enabled, now, tracked_pairs, detection_history, FAA_CACHE, faa_cache_file,
                   last_mac_by_port, feed_log, openable, sweepVars, relayVars>>

\* lines that are no JSON object: text that json.loads rejects, a bare number, an array
BadLines == {"invalid", "number", "array"}

\* what the loop body does with such a line.  json.loads of invalid text raises
\* JSONDecodeError, which is caught: continue.  A number makes "'mac' in detection"
\* raise TypeError; an array gets past the membership tests and fails in
\* detection['mac'] = ... (TypeError) or in update_detection's detection.get
\* (AttributeError).  Neither is a JSONDecodeError: "except Exception" of the loop
\* body takes them.
LineRaises(line) == line # "invalid"

\* one line read by serial_reader(port) that is no JSON object
serial_reader_bad_line(port, line) ==
    /\ ser[port] = "open"
    /\ IF LineRaises(line)
       THEN DiscardPort(port)
       ELSE UNCHANGED <<ser, serial_connected_status, serial_objs>>
    /\ last' = [op |-> "bad_line", detection |-> ("port" :> port) @@ ("line" :> line),
                prev |-> <<>>, cache |-> FAA_CACHE]
    /\ UNCHANGED <<variant, procVars, kml, self_max_retries, messengerVars, callVars, TAK_enabled, now, tracked_pairs, detection_history, FAA_CACHE, faa_cache_file,
                   last_mac_by_port, feed_log, openable, sweepVars, relayVars>>

\* the device is unplugged: the port cannot be opened, and reading from it fails
Unplug(port) ==
    /\ openable[port]
    /\ openable' = [openable EXCEPT ![port] = FALSE]
    /\ UNCHANGED <<variant, procVars, kml, self_max_retries, messengerVars, callVars, TAK_enabled, now, storeVars, last_mac_by_port, feed_log,
                   ser, serial_connected_status, serial_objs, sweepVars, relayVars>>

Plug(port) ==
    /\ ~openable[port]
    /\ openable' = [openable EXCEPT ![port] = TRUE]
    /\ UNCHANGED <<variant, procVars, kml, self_max_retries, messengerVars, callVars, TAK_enabled, now, storeVars, last_mac_by_port, feed_log,
                   ser, serial_connected_status, serial_objs, sweepVars, relayVars>>

\* one line read by serial_reader(port), from json.loads to update_detection
serial_reader(port, frame) ==
    LET detection == CopyRemoteId(InheritMac(frame, port)) IN
    /\ ~TAK_enabled
    /\ ser[port] = "open"
    /\ Len(feed_log) < MaxFrames
    /\ LogFrame("serial", port, frame)
    /\ last_mac_by_port' = RememberMac(last_mac_by_port, port, frame)
    /\ IF "heartbeat" \in DOMAIN detection
       THEN /\ Observe("heartbeat", detection)
            /\ UNCHANGED <<tracked_pairs, detection_history, FAA_CACHE, faa_cache_file>>
       ELSE Call_update_detection(detection)
    /\ UNCHANGED <<variant, procVars, kml, self_max_retries, messengerVars, callVars, TAK_enabled, now, portVars, sweepVars, relayVars>>

\* one message received by zmq_message_handler: json.loads, update_detection
zmq_message_handler(frame) ==
    /\ variant = "headless"
    /\ Len(feed_log) < MaxFrames
    /\ LogFrame("zmq", "", frame)
    /\ MeshMapper_StoreUpdate(frame)
    /\ UNCHANGED <<variant, procVars, kml, self_max_retries, messengerVars, callVars, TAK_enabled, now, last_mac_by_port, portVars, sweepVars,
                   relayVars>>

-----------------------------------------------------------------------------
(* update_detection as the feed threads run it: it takes no lock, so the   *)
(* threads of two ports interleave between its reads of tracked_pairs and  *)
(* FAA_CACHE (lines 508-526), its cache write (529) and its store write    *)
(* (531-532).  The identifier of a feed thread is its port.                *)

\* lines 485-529 for a detection with id and fix: the record is completed from
\* what the store and the cache hold now, and the cache is written
upd_read(port, detection) ==
    LET rec == ValidFixRecord(detection, FAA_CACHE, tracked_pairs, now) IN
    /\ ~TAK_enabled
    /\ TruthyStr(detection, "mac") /\ valid_drone(detection)
    /\ calls[port] = <<>>
    /\ Len(issued[port]) < MaxCalls
    /\ calls' = [calls EXCEPT ![port] = <<rec>>]
    /\ issued' = [issued EXCEPT ![port] = Append(@, detection)]
    /\ FAA_CACHE' = CacheAfterEnrich(rec, FAA_CACHE)
    /\ faa_cache_file' = FileAfterEnrich(rec, faa_cache_file)
    /\ Observe("update_read", detection)
    /\ UNCHANGED <<variant, procVars, kml, self_max_retries, messengerVars, feedVars, TAK_enabled, now, tracked_pairs,
                   detection_history, sweepVars, relayVars>>

\* lines 531-532: tracked_pairs[mac] = detection; detection_history.append(copy)
upd_write(port) ==
    /\ calls[port] # <<>>
    /\ LET rec == calls[port][1] IN
        /\ tracked_pairs' = Set(tracked_pairs, rec["mac"], rec)
        /\ detection_history' = Append(detection_history, rec)
        /\ Observe("update_write", rec)
    /\ calls' = [calls EXCEPT ![port] = <<>>]
    /\ UNCHANGED <<variant, procVars, kml, self_max_retries, messengerVars, feedVars, TAK_enabled, now, FAA_CACHE, faa_cache_file, issued,
                   sweepVars, relayVars>>

\* update_detection run alone on the state st = [store, cache] at time t
Applied(st, detection, t) ==
    IF ~TruthyStr(detection, "mac") \/ ~valid_drone(detection) THEN st
    ELSE LET rec == ValidFixRecord(detection, st.cache, st.store, t) IN
         [store |-> Set(st.store, detection["mac"], rec),
          cache |-> CacheAfterEnrich(rec, st.cache)]

-----------------------------------------------------------------------------
(* On-demand registry refresh: api_query_faa (mesh-mapper.py) and          *)
(* MeshMapper.query_faa_api (headless-mesh-mapper.py), the same code       *)

\* a response of the registry without records: {"data": {"items": []}}
NoItems == "NoItems"

\* what query_remote_id returns: None on failure, a response without records, or
\* a response with records
Responses == {None, NoItems, "L"}

\* if not faa_result or not faa_result.get("data", {}).get("items"): first cache
\* entry of this mac, if there is one
QueryResult(response, cache, mac) ==
    IF response \in {None, NoItems} /\ CacheIndexByMac(cache, mac) # {}
    THEN CacheFirstByMac(cache, mac)
    ELSE response

\* the refresh from the fallback on: error when faa_result is None, else the
\* result is put on the store entry and written to the cache
QueryFaa(mac, remote_id, response) ==
    LET faa_result == QueryResult(response, FAA_CACHE, mac)
        request == ("mac" :> mac) @@ ("remote_id" :> remote_id)
    IN IF faa_result = None
       THEN /\ Observe("query_faa_error", request)
            /\ UNCHANGED <<tracked_pairs, FAA_CACHE, faa_cache_file>>
       ELSE /\ Observe("query_faa_ok", request)
            /\ tracked_pairs' =
                  IF mac \in DOMAIN tracked_pairs
                  THEN [tracked_pairs EXCEPT ![mac] = Set(@, "faa_data", faa_result)]
                  ELSE Set(tracked_pairs, mac,
                           ("basic_id" :> remote_id) @@ ("faa_data" :> faa_result))
            /\ FAA_CACHE' = write_to_faa_cache(FAA_CACHE, mac, remote_id, faa_result)
            /\ faa_cache_file' = AppendRow(faa_cache_file, mac, remote_id, faa_result)

api_query_faa(mac, remote_id, response) ==
    /\ variant = "dashboard"
    /\ Len(faa_cache_file) < MaxRows
    /\ QueryFaa(mac, remote_id, response)
    /\ UNCHANGED <<variant, procVars, kml, self_max_retries, messengerVars, callVars, feedVars, TAK_enabled, now, detection_history, sweepVars, relayVars>>

MeshMapper_query_faa_api(mac, remote_id, response) ==
    /\ variant = "headless"
    /\ Len(faa_cache_file) < MaxRows
    /\ QueryFaa(mac, remote_id, response)
    /\ UNCHANGED <<variant, procVars, kml, self_max_retries, messengerVars, callVars, feedVars, TAK_enabled, now, detection_history, sweepVars, relayVars>>

\* POST /api/reactivate/<mac> (mesh-mapper.py): the entry's last_update is set
\* to the time of the request; an unknown mac is answered 404
reactivate(mac) ==
    /\ variant = "dashboard"
    /\ Observe("reactivate", ("mac" :> mac))
    /\ tracked_pairs' = IF mac \in DOMAIN tracked_pairs
                        THEN [tracked_pairs EXCEPT ![mac] = Set(@, "last_update", now)]
                        ELSE tracked_pairs
    /\ UNCHANGED <<variant, procVars, kml, self_max_retries, messengerVars, callVars, feedVars, TAK_enabled, now, detection_history, FAA_CACHE, faa_cache_file,
                   sweepVars, relayVars>>

-----------------------------------------------------------------------------
(* The stale sweep of MeshMapper.run (headless variant only) *)

\* mutant: an entry exactly as old as the threshold is stale too
IsStale_AtThreshold(det, t) == t - Get(det, "last_update", 0) >= staleThreshold

\* current_time - det.get("last_update", 0) > staleThreshold
IsStale(det, t) == t - Get(det, "last_update", 0) > staleThreshold

Remove(d, k) == [x \in DOMAIN d \ {k} |-> d[x]]

\* current_time = time.time(); mac_addresses = list(tracked_pairs.keys())
run_sweep_begin ==
    /\ variant = "headless"
    /\ mac_addresses = {}
    /\ deleting = <<>>
    /\ DOMAIN tracked_pairs # {}
    /\ current_time' = now
    /\ mac_addresses' = DOMAIN tracked_pairs
    /\ last' = [op |-> "sweep_begin", detection |-> EmptyDict, prev |-> <<>>,
                cache |-> FAA_CACHE]
    /\ UNCHANGED <<variant, procVars, kml, self_max_retries, messengerVars, callVars, feedVars, TAK_enabled, tracked_pairs, detection_history, FAA_CACHE, faa_cache_file,
                   now, deleting, relayVars>>

\* one turn of "for mac in mac_addresses": det = tracked_pairs[mac]; if stale: del
run_sweep_step(mac) ==
    /\ variant = "headless"
    /\ mac \in mac_addresses
    /\ deleting = <<>>
    /\ mac_addresses' = mac_addresses \ {mac}
    /\ tracked_pairs' = IF IsStale(tracked_pairs[mac], current_time)
                        THEN Remove(tracked_pairs, mac)
                        ELSE tracked_pairs
    /\ last' = [op |-> "sweep_step", detection |-> ("mac" :> mac),
                prev |-> <<tracked_pairs[mac]>>, cache |-> FAA_CACHE]
    /\ UNCHANGED <<variant, procVars, kml, self_max_retries, messengerVars, callVars, feedVars, TAK_enabled, detection_history, FAA_CACHE, faa_cache_file, now,
                   current_time, deleting, relayVars>>

\* The same turn as the feed threads see it: the main loop takes no lock, so an
\* update can run between the test of det and the del.
\* det = tracked_pairs[mac]; if current_time - det.get("last_update", 0) > staleThreshold
run_sweep_check(mac) ==
    /\ variant = "headless"
    /\ mac \in mac_addresses
    /\ deleting = <<>>
    /\ mac_addresses' = mac_addresses \ {mac}
    /\ deleting' = IF IsStale(tracked_pairs[mac], current_time) THEN <<mac>> ELSE <<>>
    /\ last' = [op |-> "sweep_check", detection |-> ("mac" :> mac),
                prev |-> <<tracked_pairs[mac]>>, cache |-> FAA_CACHE]
    /\ UNCHANGED <<variant, procVars, kml, self_max_retries, messengerVars, callVars, feedVars, TAK_enabled,
                   tracked_pairs, detection_history, FAA_CACHE, faa_cache_file, now,
                   current_time, relayVars>>

\* del tracked_pairs[mac]
run_sweep_del ==
    /\ variant = "headless"
    /\ deleting # <<>>
    /\ tracked_pairs' = Remove(tracked_pairs, deleting[1])
    /\ deleting' = <<>>
    /\ last' = [op |-> "sweep_del", detection |-> ("mac" :> deleting[1]),
                prev |-> <<tracked_pairs[deleting[1]]>>, cache |-> FAA_CACHE]
    /\ UNCHANGED <<variant, procVars, kml, self_max_retries, messengerVars, callVars, feedVars, TAK_enabled,
                   detection_history, FAA_CACHE, faa_cache_file, now, current_time,
                   mac_addresses, relayVars>>

\* time passes
Tick ==
    /\ now < StartTime + MaxTicks * TickSeconds
    /\ now' = now + TickSeconds
    /\ UNCHANGED <<variant, procVars, kml, self_max_retries, messengerVars, callVars, feedVars, TAK_enabled, storeVars, sweepVars, relayVars>>

-----------------------------------------------------------------------------
(* TAKClient (mesh-mapper.py): the connect loop thread and the serial      *)
(* reader threads that send CoT events from update_detection.  Every       *)
(* action is one step of one thread; threads interleave between steps.     *)

LoopThread == "connect_loop"

Readers == {"port1"}

\* a Flask request thread of POST /api/detections, which calls update_detection too
Posters == {"post"}

Senders == Readers \cup Posters

Threads == {LoopThread} \cup Senders

\* seq tells the events of different updates apart (their time= attribute)
NoEvent == [role |-> "none", mac |-> "", pilot |-> FALSE, seq |-> 0]

Goto(t, label) == pc' = [pc EXCEPT ![t] = label]

\* with self.connecting_lock: ...  (entering blocks while another thread holds it)
Acquire(t) == connecting_lock = None /\ connecting_lock' = t

Release(t) == connecting_lock' = None

Call_connect(t, back) ==
    /\ pc' = [pc EXCEPT ![t] = "connect"]
    /\ ret' = [ret EXCEPT ![t] = back]

RECURSIVE Power(_, _)
Power(b, k) == IF k = 0 THEN 1 ELSE b * Power(b, k - 1)

\* mutant: the wait is not capped
BackoffWait_Uncapped(k) == Power(backoff_factor, k)

\* wait = min(self.backoff_factor ** self.retry_count, self.max_backoff)
BackoffWait(k) ==
    IF Power(backoff_factor, k) < max_backoff THEN Power(backoff_factor, k)
                                              ELSE max_backoff

\* mutant: the loop goes on whatever the counter says
ConnectMayTry_Always == TRUE

\* while self.max_retries == -1 or self.retry_count < self.max_retries
ConnectMayTry == self_max_retries = -1 \/ retry_count < self_max_retries

\* TAKClient.connect: one turn of its while loop.  A successful attempt stores the
\* new connection in self.sock without looking at what was there.
connect(t) ==
    /\ pc[t] = "connect"
    /\ IF ~ConnectMayTry
       THEN \* max retries exceeded; giving up
            /\ sock' = <<>>
            /\ Goto(t, ret[t])
            /\ UNCHANGED <<retry_count, wait, live, opened>>
       ELSE IF reachable
       THEN /\ opened < MaxOpened
            /\ opened' = opened + 1
            /\ live' = live \cup {opened + 1}
            /\ sock' = <<opened + 1>>
            /\ retry_count' = 0
            /\ wait' = 0
            /\ Goto(t, ret[t])
       ELSE \* connect error: log it and go to sleep
            /\ wait' = BackoffWait(retry_count)
            /\ Goto(t, "connect_sleep")
            /\ UNCHANGED <<sock, retry_count, live, opened>>
    /\ UNCHANGED <<variant, procVars, kml, self_max_retries, messengerVars, callVars, feedVars, TAK_enabled, now, storeVars, sweepVars,
                   connecting_lock, ret, attempt, event, reachable, disturbed, wire>>

\* TAKClient.connect, except clause: time.sleep(wait); self.retry_count += 1.
\* The counter is counted up to MaxRetryCount; with max_retries = -1 its value
\* decides nothing but the length of the sleep.
connect_sleep(t) ==
    /\ pc[t] = "connect_sleep"
    /\ retry_count' = IF retry_count < MaxRetryCount THEN retry_count + 1
                                                    ELSE retry_count
    /\ Goto(t, "connect")
    /\ UNCHANGED <<variant, procVars, kml, self_max_retries, messengerVars, callVars, feedVars, TAK_enabled, now, storeVars, sweepVars, sock, wait,
                   connecting_lock, ret, attempt, event, netVars>>

\* run_connect_loop: if not self.sock
run_connect_loop_check(t) ==
    /\ pc[t] = "loop_check"
    /\ sock = <<>>
    /\ Goto(t, "loop_lock")
    /\ UNCHANGED <<variant, procVars, kml, self_max_retries, messengerVars, callVars, feedVars, TAK_enabled, now, storeVars, sweepVars, clientVars,
                   ret, attempt, event, netVars>>

\* run_connect_loop: with self.connecting_lock: if not self.sock: self.connect()
run_connect_loop_lock(t) ==
    /\ pc[t] = "loop_lock"
    /\ Acquire(t)
    /\ IF sock = <<>>
       THEN Call_connect(t, "loop_unlock")
       ELSE Goto(t, "loop_unlock") /\ UNCHANGED ret
    /\ UNCHANGED <<variant, procVars, kml, self_max_retries, messengerVars, callVars, feedVars, TAK_enabled, now, storeVars, sweepVars, sock, retry_count, wait,
                   attempt, event, netVars>>

\* run_connect_loop: leaving the with block, time.sleep(1)
run_connect_loop_unlock(t) ==
    /\ pc[t] = "loop_unlock"
    /\ Release(t)
    /\ Goto(t, "loop_check")
    /\ UNCHANGED <<variant, procVars, kml, self_max_retries, messengerVars, callVars, feedVars, TAK_enabled, now, storeVars, sweepVars, sock, retry_count, wait,
                   ret, attempt, event, netVars>>

\* the drone event of a stored detection, and whether a pilot event follows
DroneEvent(detection, n) ==
    [role |-> "drone", mac |-> detection["mac"],
     pilot |-> Get(detection, "pilot_lat", 0) # 0 /\ Get(detection, "pilot_long", 0) # 0,
     seq |-> n]

\* serial_reader -> update_detection with the relay enabled: lines 484-551 store
\* the detection, then the drone event is handed to TAKClient.send
reader_update_detection(t, detection) ==
    /\ variant = "dashboard"
    /\ TAK_enabled
    /\ cot_messenger = "TAKClient"
    /\ pc[t] = "read"
    /\ Len(detection_history) < MaxHistory
    /\ StoreUpdate(detection)
    /\ IF ~TruthyStr(detection, "mac") \/ ~valid_drone(detection)
       THEN UNCHANGED <<pc, attempt, event>>
       ELSE /\ Goto(t, "send_check")
            /\ attempt' = [attempt EXCEPT ![t] = 0]
            /\ event' = [event EXCEPT ![t] = DroneEvent(detection, Len(detection_history) + 1)]
    /\ UNCHANGED <<variant, procVars, kml, self_max_retries, messengerVars, callVars, feedVars, TAK_enabled, now, sweepVars, clientVars, ret, netVars>>

\* TAKClient.send: top of "for attempt in range(self.send_retries + 1)" and
\* "if not self.sock"
send_check(t) ==
    /\ pc[t] = "send_check"
    /\ Goto(t, IF attempt[t] > send_retries THEN "send_return"
               ELSE IF sock = <<>> THEN "send_lock"
               ELSE "send_write")
    /\ UNCHANGED <<variant, procVars, kml, self_max_retries, messengerVars, callVars, feedVars, TAK_enabled, now, storeVars, sweepVars, clientVars,
                   ret, attempt, event, netVars>>

\* send: with self.connecting_lock: self.connect()   (no second look at self.sock)
send_lock(t) ==
    /\ pc[t] = "send_lock"
    /\ Acquire(t)
    /\ Call_connect(t, "send_unlock")
    /\ UNCHANGED <<variant, procVars, kml, self_max_retries, messengerVars, callVars, feedVars, TAK_enabled, now, storeVars, sweepVars, sock, retry_count, wait,
                   attempt, event, netVars>>

\* send: leaving the with block; "if not self.sock: ... dropping CoT; return"
send_unlock(t) ==
    /\ pc[t] = "send_unlock"
    /\ Release(t)
    /\ Goto(t, IF sock = <<>> THEN "send_return" ELSE "send_write")
    /\ UNCHANGED <<variant, procVars, kml, self_max_retries, messengerVars, callVars, feedVars, TAK_enabled, now, storeVars, sweepVars, sock, retry_count, wait,
                   ret, attempt, event, netVars>>

\* mutant: the socket is closed but self.sock keeps referring to it
TAKClient_close_NoReset(s) ==
    IF s.sock # <<>>
    THEN [sock |-> s.sock, live |-> s.live \ {s.sock[1]}]
    ELSE s

\* TAKClient.close / TAKPlainClient.close on the client state s = [sock, live]:
\* if self.sock: self.sock.close(); self.sock = None
TAKClient_close(s) ==
    IF s.sock # <<>>
    THEN [sock |-> <<>>, live |-> s.live \ {s.sock[1]}]
    ELSE s

\* mutant: after a successful write send goes on as after a failed one
send_written_Retry == "send_relock"

\* send: "return" after a successful sendall
send_written == "send_return"

\* send: self.sock.sendall(cot_xml + b'\n').  On a connection whose peer is gone
\* it raises OSError and the except clause runs self.close(); on None (another
\* thread closed meanwhile) it raises AttributeError, which send does not catch
\* and update_detection's "except Exception" swallows, skipping the pilot event.
send_write(t) ==
    /\ pc[t] = "send_write"
    /\ IF sock = <<>>
       THEN /\ Goto(t, "read")
            /\ event' = [event EXCEPT ![t] = NoEvent]
            /\ UNCHANGED <<sock, wire>>
       ELSE IF sock[1] \in live
       THEN /\ wire' = Append(wire, [role |-> event[t].role, mac |-> event[t].mac,
                                      seq |-> event[t].seq])
            /\ Goto(t, send_written)
            /\ UNCHANGED <<sock, event>>
       ELSE \* self.close(): the socket is closed and forgotten
            /\ sock' = TAKClient_close([sock |-> sock, live |-> live]).sock
            /\ Goto(t, "send_relock")
            /\ UNCHANGED <<wire, event>>
    /\ UNCHANGED <<variant, procVars, kml, self_max_retries, messengerVars, callVars, feedVars, TAK_enabled, now, storeVars, sweepVars, retry_count, wait,
                   connecting_lock, ret, attempt, reachable, live, opened, disturbed>>

\* send, except clause: with self.connecting_lock: self.connect()
send_relock(t) ==
    /\ pc[t] = "send_relock"
    /\ Acquire(t)
    /\ Call_connect(t, "send_reunlock")
    /\ UNCHANGED <<variant, procVars, kml, self_max_retries, messengerVars, callVars, feedVars, TAK_enabled, now, storeVars, sweepVars, sock, retry_count, wait,
                   attempt, event, netVars>>

\* send, except clause: leaving the with block, next attempt
send_reunlock(t) ==
    /\ pc[t] = "send_reunlock"
    /\ Release(t)
    /\ attempt' = [attempt EXCEPT ![t] = attempt[t] + 1]
    /\ Goto(t, "send_check")
    /\ UNCHANGED <<variant, procVars, kml, self_max_retries, messengerVars, callVars, feedVars, TAK_enabled, now, storeVars, sweepVars, sock, retry_count, wait,
                   ret, event, netVars>>

\* send has returned to update_detection: after the drone event the pilot event is
\* sent if the pilot position is valid; then update_detection returns to the reader
send_return(t) ==
    /\ pc[t] = "send_return"
    /\ IF event[t].role = "drone" /\ event[t].pilot
       THEN /\ event' = [event EXCEPT ![t] = [event[t] EXCEPT !.role = "pilot"]]
            /\ attempt' = [attempt EXCEPT ![t] = 0]
            /\ Goto(t, "send_check")
       ELSE /\ event' = [event EXCEPT ![t] = NoEvent]
            /\ attempt' = [attempt EXCEPT ![t] = 0]
            /\ Goto(t, "read")
    /\ UNCHANGED <<variant, procVars, kml, self_max_retries, messengerVars, callVars, feedVars, TAK_enabled, now, storeVars, sweepVars, clientVars,
                   ret, netVars>>

\* setup_tls_context: None when the bundle file is missing, unreadable or cannot
\* be loaded, else the context built from it
Bundles == {"missing", "invalid", "valid"}

Values(d) == {d[k] : k \in DOMAIN d}

\* threading.Thread(target=serial_reader, args=(port,), daemon=True).start()
start_serial_thread(rs, port) == [rs EXCEPT ![port] = @ + 1]

\* for port in SELECTED_PORTS.values(): if port not in serial_objs: start_serial_thread(port)
EnsureReaders(rs) ==
    [port \in Ports |-> IF port \in Values(SELECTED_PORTS) /\ port \notin serial_objs
                        THEN start_serial_thread(rs, port)[port]
                        ELSE rs[port]]

setup_tls_context(bundle) == IF bundle = "valid" THEN "SSLContext" ELSE None

\* POST /api/tak_settings with enabled = true on a dashboard whose relay is off:
\* the context is made from the bundle on disk; with one, a TAKClient is created
\* and its connect loop started, without one a TAKUDPClient takes its place
api_post_tak_settings_enable(bundle) ==
    /\ variant = "dashboard"
    /\ ~TAK_enabled
    /\ cot_messenger = None /\ opened = 0
    /\ connect_loops < MaxLoops
    /\ \A port \in Ports : readers[port] < MaxReaders
    /\ TAK_enabled' = TRUE
    /\ connect_loops' = IF setup_tls_context(bundle) # None THEN connect_loops + 1
                                                           ELSE connect_loops
    /\ readers' = EnsureReaders(readers)
    /\ global_tls_context' = setup_tls_context(bundle)
    /\ cot_messenger' = IF setup_tls_context(bundle) # None THEN "TAKClient"
                                                           ELSE "TAKUDPClient"
    /\ last' = [op |-> "tak_settings", detection |-> ("bundle" :> bundle), prev |-> <<>>,
                cache |-> FAA_CACHE]
    /\ UNCHANGED <<variant, SELECTED_PORTS, kml, self_max_retries, datagrams, callVars, feedVars, now, tracked_pairs, detection_history,
                   FAA_CACHE, faa_cache_file, sweepVars, relayVars>>

\* TAKUDPClient.send: sock.sendto, every exception logged and swallowed
TAKUDPClient_send(sent, cot) == Append(sent, cot)

\* update_detection while _cot_messenger holds a TAKUDPClient: lines 484-551 store
\* the detection, then send_cot sends the drone event and, with a valid pilot
\* position, the pilot event
udp_update_detection(detection) ==
    LET n == Len(detection_history) + 1
        drone == [role |-> "drone", mac |-> detection["mac"], seq |-> n]
        pilot == [role |-> "pilot", mac |-> detection["mac"], seq |-> n]
    IN
    /\ variant = "dashboard"
    /\ TAK_enabled
    /\ cot_messenger = "TAKUDPClient"
    /\ Len(detection_history) < MaxHistory
    /\ StoreUpdate(detection)
    /\ datagrams' =
          IF ~TruthyStr(detection, "mac") \/ ~valid_drone(detection) THEN datagrams
          ELSE IF DroneEvent(detection, n).pilot
          THEN TAKUDPClient_send(TAKUDPClient_send(datagrams, drone), pilot)
          ELSE TAKUDPClient_send(datagrams, drone)
    /\ UNCHANGED <<variant, procVars, kml, self_max_retries, global_tls_context, cot_messenger, callVars, feedVars, TAK_enabled, now,
                   sweepVars, relayVars>>

\* POST /api/tak_settings with enabled = false while the relay is enabled:
\* _cot_messenger.close() closes the client's socket, then _tak_client and
\* _cot_messenger are set to None.  The thread running run_connect_loop of that
\* client is not stopped, and a thread inside send goes on.
api_post_tak_settings_disable ==
    /\ variant = "dashboard"
    /\ TAK_enabled
    /\ \A port \in Ports : readers[port] < MaxReaders
    /\ TAK_enabled' = FALSE
    /\ readers' = EnsureReaders(readers)
    /\ LET closed == TAKClient_close([sock |-> sock, live |-> live]) IN
           /\ sock' = closed.sock
           /\ live' = closed.live
    /\ cot_messenger' = None
    /\ last' = [op |-> "close", detection |-> EmptyDict,
                prev |-> <<[sock |-> sock, live |-> live]>>, cache |-> FAA_CACHE]
    /\ UNCHANGED <<variant, SELECTED_PORTS, connect_loops, kml, self_max_retries, global_tls_context, datagrams, callVars, feedVars, now, tracked_pairs, detection_history, FAA_CACHE, faa_cache_file, sweepVars,
                   retry_count, wait, connecting_lock, threadVars, reachable, opened,
                   disturbed, wire>>

\* the forms posted to /select_ports: the non-empty fields
Selections ==
    { ("port1" :> "ttyACM0"),
      ("port1" :> "ttyUSB0"),
      ("port1" :> "ttyACM0") @@ ("port2" :> "ttyUSB0") }

\* POST /select_ports while the relay is disabled: the fields are stored, and a
\* reader is started for every port that is selected now
select_ports_post(selection) ==
    /\ variant = "dashboard"
    /\ ~TAK_enabled
    /\ \A port \in Ports : readers[port] < MaxReaders
    /\ SELECTED_PORTS' = selection @@ SELECTED_PORTS
    /\ serial_connected_status' =
           [port \in Ports |-> IF port \in Values(SELECTED_PORTS') THEN FALSE
                                ELSE serial_connected_status[port]]
    /\ readers' = [port \in Ports |-> IF port \in Values(SELECTED_PORTS')
                                       THEN start_serial_thread(readers, port)[port]
                                       ELSE readers[port]]
    /\ last' = [op |-> "select_ports", detection |-> selection, prev |-> <<>>,
                cache |-> FAA_CACHE]
    /\ UNCHANGED <<variant, connect_loops, kml, self_max_retries, messengerVars, callVars,
                   TAK_enabled, now, tracked_pairs, detection_history, FAA_CACHE,
                   faa_cache_file, last_mac_by_port, feed_log, ser, serial_objs, openable,
                   sweepVars, relayVars>>

\* the endpoint goes away: no new connection is accepted, open ones are dead
NetDown ==
    /\ reachable
    /\ reachable' = FALSE
    /\ live' = {}
    /\ disturbed' = TRUE
    /\ UNCHANGED <<variant, procVars, kml, self_max_retries, messengerVars, callVars, feedVars, TAK_enabled, now, storeVars, sweepVars, clientVars,
                   threadVars, opened, wire>>

\* the peer drops the open connections (a restart, a reset) but keeps listening
ConnReset ==
    /\ live # {}
    /\ live' = {}
    /\ disturbed' = TRUE
    /\ UNCHANGED <<variant, procVars, kml, self_max_retries, messengerVars, callVars, feedVars, TAK_enabled, now, storeVars, sweepVars, clientVars,
                   threadVars, reachable, opened, wire>>

\* the endpoint comes back
NetUp ==
    /\ ~reachable
    /\ reachable' = TRUE
    /\ UNCHANGED <<variant, procVars, kml, self_max_retries, messengerVars, callVars, feedVars, TAK_enabled, now, storeVars, sweepVars, clientVars,
                   threadVars, live, opened, disturbed, wire>>

\* one step of thread t
ReaderStep(t) ==
    \/ connect(t)
    \/ connect_sleep(t)
    \/ send_check(t)
    \/ send_lock(t)
    \/ send_unlock(t)
    \/ send_write(t)
    \/ send_relock(t)
    \/ send_reunlock(t)
    \/ send_return(t)

LoopStep(t) ==
    \/ connect(t)
    \/ connect_sleep(t)
    \/ run_connect_loop_check(t)
    \/ run_connect_loop_lock(t)
    \/ run_connect_loop_unlock(t)

-----------------------------------------------------------------------------
(* Inputs: the frames handed to update_detection by a feed or by           *)
(* POST /api/detections (any JSON object), and the cache found at start-up *)

Macs == {"AA:BB", "CC:DD"}

NoMacPart == {EmptyDict}

MacParts == {("mac" :> m) : m \in Macs}

NoFixPart == {("drone_lat" :> 0) @@ ("drone_long" :> 0)}

HalfFixPart == {("drone_lat" :> 10) @@ ("drone_long" :> 0)}

FixParts ==
    { ("drone_lat" :> 10) @@ ("drone_long" :> 20),
      ("drone_lat" :> 11) @@ ("drone_long" :> 21) @@ ("drone_altitude" :> 5) }

BasicIdParts == {EmptyDict, ("basic_id" :> "R1"), ("basic_id" :> "R2")}

RssiParts == {EmptyDict, ("rssi" :> -40)}

FaaParts == {EmptyDict, ("faa_data" :> "F")}

Combine(A, B) == {a @@ b : a \in A, b \in B}

\* frames of the merge claims: position, remote id and signal strength vary
StoreFrames ==
    Combine(Combine(Combine(MacParts, NoFixPart \cup HalfFixPart \cup FixParts),
                    BasicIdParts), RssiParts)
    \cup Combine(NoMacPart, FixParts)

\* frames of the registry claims: remote id and registry payload vary
RegistryFrames ==
    Combine(Combine(Combine(MacParts, NoFixPart \cup {("drone_lat" :> 10) @@ ("drone_long" :> 20)}),
                    BasicIdParts), FaaParts)

\* frames of the sweep claims
SweepFrames ==
    Combine(MacParts, NoFixPart \cup {("drone_lat" :> 10) @@ ("drone_long" :> 20)})

PilotParts == {EmptyDict, ("pilot_lat" :> 30) @@ ("pilot_long" :> 40)}

\* frames of the relay claims: with and without a fix, with and without a pilot
RelayFrames ==
    Combine({("mac" :> "AA:BB")},
            NoFixPart \cup Combine({("drone_lat" :> 10) @@ ("drone_long" :> 20)}, PilotParts))

\* the registry cache file found at start-up
InitialCaches ==
    { <<>>,
      <<CacheRow("AA:BB", "R1", "P")>>,
      <<CacheRow("AA:BB", "R2", "Q"), CacheRow("AA:BB", "R1", "P")>>,
      <<CacheRow("CC:DD", "R2", "Q"), CacheRow("AA:BB", "R1", "P")>>,
      <<CacheRow("CC:DD", "R1", "Q")>> }

-----------------------------------------------------------------------------
(* Spec: the detection store under updates, both variants *)

InitStore ==
    /\ faa_cache_file = FileOf(FAA_CACHE)
    /\ tracked_pairs = EmptyDict
    /\ detection_history = <<>>
    /\ now = StartTime
    /\ current_time = StartTime
    /\ deleting = <<>>
    /\ mac_addresses = {}
    /\ last_mac_by_port = EmptyDict
    /\ feed_log = <<>>
    /\ ser = [port \in Ports |-> None]
    /\ serial_connected_status = [port \in Ports |-> FALSE]
    /\ serial_objs = {}
    /\ openable = [port \in Ports |-> TRUE]
    /\ calls = [port \in Ports |-> <<>>]
    /\ issued = [port \in Ports |-> <<>>]
    /\ kml = [port \in Ports |-> <<>>]
    /\ last = [op |-> "init", detection |-> EmptyDict, prev |-> <<>>, cache |-> <<>>]

\* both ports were chosen on the selection page, and each has its reader
InitThreads ==
    /\ SELECTED_PORTS = ("port1" :> "ttyACM0") @@ ("port2" :> "ttyUSB0")
    /\ readers = [port \in Ports |-> 1]

\* TAKClient.__init__, threads at the top of their loops, nothing sent yet
InitClient ==
    /\ sock = <<>>
    /\ retry_count = 0
    /\ wait = 0
    /\ connecting_lock = None
    /\ pc = [t \in Threads |-> IF t = LoopThread THEN "loop_check" ELSE "read"]
    /\ ret = [t \in Threads |-> None]
    /\ attempt = [t \in Threads |-> 0]
    /\ event = [t \in Threads |-> NoEvent]
    /\ live = {}
    /\ opened = 0
    /\ wire = <<>>
    /\ datagrams = <<>>

\* TAK_SETTINGS = {'enabled': False, ...}: no client, no thread runs relay code
InitNoRelay ==
    /\ TAK_enabled = FALSE
    /\ global_tls_context = None
    /\ cot_messenger = None
    /\ self_max_retries = max_retries
    /\ InitClient
    /\ InitThreads
    /\ connect_loops = IF cot_messenger = "TAKClient" THEN 1 ELSE 0
    /\ reachable = FALSE
    /\ disturbed = TRUE

Init ==
    /\ variant \in {"dashboard", "headless"}
    /\ FAA_CACHE = <<>>
    /\ InitStore
    /\ InitNoRelay

Next ==
    \/ \E detection \in StoreFrames : update_detection(detection)
    \/ \E detection \in StoreFrames : MeshMapper_update_detection(detection)

Spec == Init /\ [][Next]_vars

-----------------------------------------------------------------------------
(* SpecRegistry: updates against a registry cache loaded at start-up *)

InitRegistry ==
    /\ variant \in {"dashboard", "headless"}
    /\ FAA_CACHE \in InitialCaches
    /\ InitStore
    /\ InitNoRelay

NextRegistry ==
    \/ \E detection \in RegistryFrames : update_detection(detection)
    \/ \E detection \in RegistryFrames : MeshMapper_update_detection(detection)

SpecRegistry == InitRegistry /\ [][NextRegistry]_vars

-----------------------------------------------------------------------------
(* SpecQuery: updates and on-demand registry refreshes *)

QueryFrames ==
    Combine(Combine(Combine({("mac" :> "AA:BB")},
                            NoFixPart \cup {("drone_lat" :> 10) @@ ("drone_long" :> 20)}),
                    {EmptyDict, ("basic_id" :> "R2")}), FaaParts)

InitQuery ==
    /\ variant \in {"dashboard", "headless"}
    /\ FAA_CACHE \in {<<>>, <<CacheRow("AA:BB", "R1", "P")>>, <<CacheRow("CC:DD", "R1", "Q")>>}
    /\ InitStore
    /\ InitNoRelay

NextQuery ==
    \/ \E detection \in QueryFrames : update_detection(detection)
    \/ \E detection \in QueryFrames : MeshMapper_update_detection(detection)
    \/ \E mac \in Macs : \E response \in Responses : api_query_faa(mac, "R1", response)
    \/ \E mac \in Macs : \E response \in Responses :
            MeshMapper_query_faa_api(mac, "R1", response)

SpecQuery == InitQuery /\ [][NextQuery]_vars

-----------------------------------------------------------------------------
(* SpecFeed: frames arriving on two serial ports and, in the headless      *)
(* variant, on a ZMQ endpoint                                              *)

HeartbeatPart == {("heartbeat" :> 1)}

\* iter(tracked_pairs.items()): the size the dict has, and how many items were yielded
dict_iter(d) == [used |-> Cardinality(DOMAIN d), pos |-> 0]

\* serial_reader(port) of mesh-mapper.py as the other threads see it: one line read,
\* update_detection up to the CSV row (lines 484-550), and generate_kml entered
serial_reader_store(port, frame) ==
    LET detection == CopyRemoteId(InheritMac(frame, port)) IN
    /\ variant = "dashboard"
    /\ ~TAK_enabled
    /\ ser[port] = "open"
    /\ kml[port] = <<>>
    /\ Len(feed_log) < MaxFrames
    /\ LogFrame("serial", port, frame)
    /\ last_mac_by_port' = RememberMac(last_mac_by_port, port, frame)
    /\ IF "heartbeat" \in DOMAIN detection
       THEN /\ Observe("heartbeat", detection)
            /\ UNCHANGED <<tracked_pairs, detection_history, FAA_CACHE, faa_cache_file, kml>>
       ELSE /\ StoreUpdate(detection)
            /\ kml' = IF TruthyStr(detection, "mac") /\ valid_drone(detection)
                      THEN [kml EXCEPT ![port] = <<dict_iter(tracked_pairs')>>]
                      ELSE kml
    /\ UNCHANGED <<variant, procVars, self_max_retries, messengerVars, callVars, TAK_enabled, now,
                   portVars, sweepVars, relayVars>>

\* one turn of "for mac, det in tracked_pairs.items()" in the reader of port.  The
\* iterator compares the dict's size with the size it started with before anything
\* else; on a difference it raises RuntimeError (dictionary changed size during
\* iteration), which update_detection lets through to "except Exception" of the
\* reader's loop.  After the last item the file is written and the call returns.
generate_kml_next(port) ==
    /\ kml[port] # <<>>
    /\ LET it == kml[port][1] IN
       IF it.used # Cardinality(DOMAIN tracked_pairs)
       THEN /\ kml' = [kml EXCEPT ![port] = <<>>]
            /\ DiscardPort(port)
            /\ last' = [op |-> "RuntimeError", detection |-> ("port" :> port), prev |-> <<>>,
                        cache |-> FAA_CACHE]
       ELSE IF it.pos = it.used
       THEN /\ kml' = [kml EXCEPT ![port] = <<>>]
            /\ last' = [op |-> "generate_kml", detection |-> ("port" :> port), prev |-> <<>>,
                        cache |-> FAA_CACHE]
            /\ UNCHANGED <<ser, serial_connected_status, serial_objs>>
       ELSE /\ kml' = [kml EXCEPT ![port] = <<[it EXCEPT !.pos = @ + 1]>>]
            /\ UNCHANGED <<ser, serial_connected_status, serial_objs, last>>
    /\ UNCHANGED <<variant, procVars, self_max_retries, messengerVars, callVars, TAK_enabled, now,
                   tracked_pairs, detection_history, FAA_CACHE, faa_cache_file,
                   last_mac_by_port, feed_log, openable, sweepVars, relayVars>>

FeedFrames ==
    { ("mac" :> "AA:BB") @@ ("drone_lat" :> 10) @@ ("drone_long" :> 20),
      ("mac" :> "CC:DD") @@ ("drone_lat" :> 11) @@ ("drone_long" :> 21),
      ("mac" :> "AA:BB") @@ ("drone_lat" :> 0) @@ ("drone_long" :> 0),
      ("drone_lat" :> 12) @@ ("drone_long" :> 22),
      ("drone_lat" :> 0) @@ ("drone_long" :> 0) @@ ("rssi" :> -40),
      ("drone_lat" :> 13) @@ ("drone_long" :> 23) @@ ("remote_id" :> "R1") }
    \cup Combine(HeartbeatPart,
                 { EmptyDict,
                   ("mac" :> "CC:DD") @@ ("drone_lat" :> 11) @@ ("drone_long" :> 21),
                   ("drone_lat" :> 12) @@ ("drone_long" :> 22) })

ZmqFrames ==
    { ("mac" :> "AA:BB") @@ ("drone_lat" :> 10) @@ ("drone_long" :> 20) }
    \cup Combine(HeartbeatPart,
                 { EmptyDict,
                   ("mac" :> "CC:DD") @@ ("drone_lat" :> 11) @@ ("drone_long" :> 21) })

InitFeed ==
    /\ variant \in {"dashboard", "headless"}
    /\ FAA_CACHE = <<>>
    /\ InitStore
    /\ InitNoRelay

NextFeed ==
    \/ \E port \in Ports : serial_open(port)
    \/ \E port \in Ports : \E frame \in FeedFrames : serial_reader(port, frame)
    \/ \E frame \in ZmqFrames : zmq_message_handler(frame)

SpecFeed == InitFeed /\ [][NextFeed]_vars

-----------------------------------------------------------------------------
(* SpecSerial: the serial readers with lines that are no detection, I/O    *)
(* errors and devices that come and go.  A reader whose port is closed     *)
(* retries the open after its one-second sleep, for ever.                  *)

SerialFrames ==
    { ("mac" :> "AA:BB") @@ ("drone_lat" :> 10) @@ ("drone_long" :> 20),
      ("drone_lat" :> 12) @@ ("drone_long" :> 22) }

NextSerial ==
    \/ \E port \in Ports : serial_open(port)
    \/ \E port \in Ports : \E frame \in SerialFrames : serial_reader(port, frame)
    \/ \E port \in Ports : \E line \in BadLines : serial_reader_bad_line(port, line)
    \/ \E port \in Ports : serial_io_error(port)
    \/ \E port \in Ports : Unplug(port)
    \/ \E port \in Ports : Plug(port)

SpecSerial ==
    /\ InitFeed
    /\ [][NextSerial]_vars
    /\ \A port \in Ports : WF_vars(serial_open(port))

-----------------------------------------------------------------------------
(* SpecSweep: the headless main loop sweeping while feeds update and time passes *)

InitSweep ==
    /\ variant = "headless"
    /\ FAA_CACHE = <<>>
    /\ InitStore
    /\ InitNoRelay

NextSweep ==
    \/ \E detection \in SweepFrames : MeshMapper_update_detection(detection)
    \/ run_sweep_begin
    \/ \E mac \in Macs : run_sweep_step(mac)
    \/ Tick

SpecSweep == InitSweep /\ [][NextSweep]_vars

-----------------------------------------------------------------------------
(* SpecSweepRace: the main loop's sweep and the feed threads' updates as    *)
(* they interleave; every frame has a fix, so every entry has last_update   *)

SweepRaceFrames ==
    Combine(MacParts, {("drone_lat" :> 10) @@ ("drone_long" :> 20)})

NextSweepRace ==
    \/ \E detection \in SweepRaceFrames : MeshMapper_update_detection(detection)
    \/ run_sweep_begin
    \/ \E mac \in Macs : run_sweep_check(mac)
    \/ run_sweep_del
    \/ Tick

SpecSweepRace == InitSweep /\ [][NextSweepRace]_vars

-----------------------------------------------------------------------------
(* SpecIterate: the readers of the dashboard while one of them is inside    *)
(* generate_kml and the other stores a detection                            *)

IterFrames ==
    Combine(MacParts, {("drone_lat" :> 10) @@ ("drone_long" :> 20),
                       ("drone_lat" :> 0) @@ ("drone_long" :> 0)})

InitIterate ==
    /\ variant = "dashboard"
    /\ FAA_CACHE = <<>>
    /\ InitStore
    /\ InitNoRelay

NextIterate ==
    \/ \E port \in Ports : serial_open(port)
    \/ \E port \in Ports : \E frame \in IterFrames : serial_reader_store(port, frame)
    \/ \E port \in Ports : generate_kml_next(port)
    \/ \E port \in Ports : kml[port] = <<>> /\ serial_io_error(port)

SpecIterate == InitIterate /\ [][NextIterate]_vars

-----------------------------------------------------------------------------
(* SpecPosts: the dashboard from its start, with the requests that start    *)
(* threads: port selections and relay settings, while readers open and lose *)
(* their ports                                                              *)

InitPosts ==
    /\ variant = "dashboard"
    /\ FAA_CACHE = <<>>
    /\ InitStore
    /\ TAK_enabled = FALSE
    /\ global_tls_context = None
    /\ cot_messenger = None
    /\ self_max_retries = max_retries
    /\ InitClient
    /\ SELECTED_PORTS = EmptyDict
    /\ readers = [port \in Ports |-> 0]
    /\ connect_loops = 0
    /\ reachable = TRUE
    /\ disturbed = FALSE

NextPosts ==
    \/ \E selection \in Selections : select_ports_post(selection)
    \/ \E bundle \in Bundles : api_post_tak_settings_enable(bundle)
    \/ api_post_tak_settings_disable
    \/ \E port \in Ports : readers[port] > 0 /\ serial_open(port)
    \/ \E port \in Ports : serial_io_error(port)

SpecPosts == InitPosts /\ [][NextPosts]_vars

-----------------------------------------------------------------------------
(* SpecRelay: the relay enabled, a TAKClient created by api_post_tak_settings, *)
(* its connect loop and the readers running, the endpoint coming and going     *)

InitRelay ==
    /\ variant = "dashboard"
    /\ FAA_CACHE = <<>>
    /\ InitStore
    /\ TAK_enabled = TRUE
    /\ global_tls_context = "SSLContext"
    /\ cot_messenger = "TAKClient"
    /\ self_max_retries = max_retries
    /\ InitClient
    /\ InitThreads
    /\ connect_loops = IF cot_messenger = "TAKClient" THEN 1 ELSE 0
    /\ reachable \in BOOLEAN
    /\ disturbed = ~reachable

NextRelay ==
    \/ \E t \in Readers : \E detection \in RelayFrames : reader_update_detection(t, detection)
    \/ \E t \in Readers : ReaderStep(t)
    \/ LoopStep(LoopThread)
    \/ NetDown
    \/ ConnReset
    \/ NetUp

SpecRelay == InitRelay /\ [][NextRelay]_vars

-----------------------------------------------------------------------------
(* SpecGiveUp: as SpecRelay, with a TAKClient constructed with a finite     *)
(* max_retries                                                              *)

FiniteRetries == {1, 2}

InitGiveUp ==
    /\ variant = "dashboard"
    /\ FAA_CACHE = <<>>
    /\ InitStore
    /\ TAK_enabled = TRUE
    /\ global_tls_context = "SSLContext"
    /\ cot_messenger = "TAKClient"
    /\ self_max_retries \in FiniteRetries
    /\ InitClient
    /\ InitThreads
    /\ connect_loops = IF cot_messenger = "TAKClient" THEN 1 ELSE 0
    /\ reachable \in BOOLEAN
    /\ disturbed = ~reachable

SpecGiveUp == InitGiveUp /\ [][NextRelay]_vars

-----------------------------------------------------------------------------
(* SpecOutage: as SpecRelay, but an endpoint that has gone away stays away. *)
(* Every thread is an OS thread of its own and keeps being scheduled: a     *)
(* thread that can take a step eventually takes one.  Frames arrive when    *)
(* they arrive; nothing obliges the environment.                            *)

NextOutage ==
    \/ \E t \in Readers : \E detection \in RelayFrames : reader_update_detection(t, detection)
    \/ \E t \in Readers : ReaderStep(t)
    \/ LoopStep(LoopThread)
    \/ NetDown
    \/ ConnReset

SpecOutage ==
    /\ InitRelay
    /\ [][NextOutage]_vars
    /\ \A t \in Readers : WF_vars(ReaderStep(t))
    /\ WF_vars(LoopStep(LoopThread))

-----------------------------------------------------------------------------
(* SpecRace: as SpecRelay, with a request thread of POST /api/detections   *)
(* sending through the same TAKClient as the serial reader                 *)

NextRace ==
    \/ \E t \in Senders : \E detection \in RelayFrames : reader_update_detection(t, detection)
    \/ \E t \in Senders : ReaderStep(t)
    \/ LoopStep(LoopThread)
    \/ NetDown
    \/ ConnReset
    \/ NetUp

SpecRace == InitRelay /\ [][NextRace]_vars

-----------------------------------------------------------------------------
(* SpecSettings: as SpecRelay, and the relay may be disabled through       *)
(* POST /api/tak_settings; once disabled, update_detection sends nothing   *)

NextSettings ==
    \/ \E t \in Readers : \E detection \in RelayFrames : reader_update_detection(t, detection)
    \/ \E detection \in RelayFrames : update_detection(detection)
    \/ \E t \in Readers : ReaderStep(t)
    \/ LoopStep(LoopThread)
    \/ api_post_tak_settings_disable
    \/ NetDown
    \/ ConnReset
    \/ NetUp

SpecSettings == InitRelay /\ [][NextSettings]_vars

-----------------------------------------------------------------------------
(* SpecBundle: a dashboard started with the relay off; the relay is        *)
(* enabled through POST /api/tak_settings with or without a usable         *)
(* identity bundle on disk                                                 *)

InitBundle ==
    /\ variant = "dashboard"
    /\ FAA_CACHE = <<>>
    /\ InitStore
    /\ TAK_enabled = FALSE
    /\ global_tls_context = None
    /\ cot_messenger = None
    /\ self_max_retries = max_retries
    /\ InitClient
    /\ InitThreads
    /\ connect_loops = IF cot_messenger = "TAKClient" THEN 1 ELSE 0
    /\ reachable = TRUE
    /\ disturbed = FALSE

NextBundle ==
    \/ \E bundle \in Bundles : api_post_tak_settings_enable(bundle)
    \/ \E detection \in RelayFrames : update_detection(detection)
    \/ \E detection \in RelayFrames : udp_update_detection(detection)
    \/ \E t \in Readers : \E detection \in RelayFrames : reader_update_detection(t, detection)
    \/ \E t \in Readers : cot_messenger = "TAKClient" /\ ReaderStep(t)
    \/ cot_messenger = "TAKClient" /\ LoopStep(LoopThread)
    \/ cot_messenger = "TAKClient" /\ NetDown
    \/ cot_messenger = "TAKClient" /\ NetUp

SpecBundle == InitBundle /\ [][NextBundle]_vars

-----------------------------------------------------------------------------
(* SpecAtomic: two serial readers handing detections of the same aircraft  *)
(* to update_detection at the same time                                    *)

AtomicFrames ==
    Combine({("mac" :> "AA:BB") @@ ("drone_lat" :> 10) @@ ("drone_long" :> 20)},
            {EmptyDict, ("basic_id" :> "R1"), ("faa_data" :> "F")})

NextAtomic ==
    \/ \E port \in Ports : \E detection \in AtomicFrames : upd_read(port, detection)
    \/ \E port \in Ports : upd_write(port)

SpecAtomic == Init /\ [][NextAtomic]_vars

-----------------------------------------------------------------------------
(* SpecCacheFile: updates that carry registry data under a remote id, under *)
(* none, or under a JSON null, and registry refreshes                       *)

CacheFileFrames ==
    Combine(Combine({("mac" :> "AA:BB") @@ ("drone_lat" :> 10) @@ ("drone_long" :> 20)},
                    {EmptyDict, ("basic_id" :> "R1"), ("basic_id" :> None)}),
            {EmptyDict, ("faa_data" :> "F"), ("faa_data" :> "G")})

NextCacheFile ==
    \/ \E detection \in CacheFileFrames : update_detection(detection)
    \/ \E detection \in CacheFileFrames : MeshMapper_update_detection(detection)
    \/ \E response \in {None, "L"} : api_query_faa("AA:BB", "R1", response)

SpecCacheFile == InitRegistry /\ [][NextCacheFile]_vars

-----------------------------------------------------------------------------
(* SpecHistory: everything that touches the store while the relay is       *)
(* disabled: updates, registry refreshes, reactivation (dashboard), the    *)
(* stale sweep (headless), while time passes                               *)

NextHistory ==
    \/ \E detection \in SweepFrames : update_detection(detection)
    \/ \E detection \in SweepFrames : MeshMapper_update_detection(detection)
    \/ \E mac \in Macs : \E response \in {None, "L"} : api_query_faa(mac, "R1", response)
    \/ \E mac \in Macs : reactivate(mac)
    \/ run_sweep_begin
    \/ \E mac \in Macs : run_sweep_step(mac)
    \/ Tick

SpecHistory == Init /\ [][NextHistory]_vars

-----------------------------------------------------------------------------
(* SpecNoId: frames without a usable aircraft id among frames that have    *)
(* one, in the headless variant and in the dashboard with the relay        *)
(* disabled or enabled                                                     *)

\* "mac" missing, empty, or JSON null
NoIdParts == {EmptyDict, ("mac" :> ""), ("mac" :> None)}

NoIdFrames ==
    Combine(NoIdParts \cup {("mac" :> "AA:BB")},
            {("drone_lat" :> 10) @@ ("drone_long" :> 20) @@ ("basic_id" :> "R1")
                @@ ("faa_data" :> "F")})

InitNoId ==
    /\ FAA_CACHE = <<>>
    /\ InitStore
    /\ self_max_retries = max_retries
    /\ InitClient
    /\ InitThreads
    /\ \/ /\ variant \in {"dashboard", "headless"} /\ TAK_enabled = FALSE /\ reachable = FALSE
          /\ global_tls_context = None /\ cot_messenger = None
       \/ /\ variant = "dashboard" /\ TAK_enabled = TRUE /\ reachable = TRUE
          /\ global_tls_context = "SSLContext" /\ cot_messenger = "TAKClient"
    /\ connect_loops = IF cot_messenger = "TAKClient" THEN 1 ELSE 0
    /\ disturbed = ~reachable

NextNoId ==
    \/ \E detection \in NoIdFrames : update_detection(detection)
    \/ \E detection \in NoIdFrames : MeshMapper_update_detection(detection)
    \/ \E t \in Readers : \E detection \in NoIdFrames : reader_update_detection(t, detection)
    \/ \E t \in Readers : TAK_enabled /\ ReaderStep(t)
    \/ TAK_enabled /\ LoopStep(LoopThread)
    \/ TAK_enabled /\ NetDown
    \/ TAK_enabled /\ ConnReset
    \/ TAK_enabled /\ NetUp

SpecNoId == InitNoId /\ [][NextNoId]_vars

-----------------------------------------------------------------------------
(* Claims about the detection store *)

\* the last call was update_detection with a usable aircraft id
UpdateCalled == last.op = "update_detection" /\ TruthyStr(last.detection, "mac")

\* ... and found an entry for that id
UpdateOfKnown == UpdateCalled /\ last.prev # <<>>

LastMac == last.detection["mac"]

\* the entry of the updated id after the call, as a list of 0 or 1 dicts
Stored == IF LastMac \in DOMAIN tracked_pairs THEN <<tracked_pairs[LastMac]>> ELSE <<>>

SameKey(post, prev, k) == k \in DOMAIN post /\ post[k] = prev[k]

\* C1: once an entry holds a valid drone position, a no-fix update of that id
\* leaves the stored drone_lat / drone_long unchanged, in both variants.
C1_NoFixKeepsPosition ==
    (UpdateOfKnown /\ ~valid_drone(last.detection) /\ valid_drone(last.prev[1]))
    => /\ Stored # <<>>
       /\ SameKey(Stored[1], last.prev[1], "drone_lat")
       /\ SameKey(Stored[1], last.prev[1], "drone_long")

\* C2: basic_id is sticky: an update that omits it keeps the stored one (whether
\* the update has a fix or not), and an update that supplies another one replaces it.
C2_BasicIdSticky ==
    /\ (UpdateOfKnown /\ ~TruthyStr(last.detection, "basic_id")
                      /\ TruthyStr(last.prev[1], "basic_id"))
       => (Stored # <<>> /\ SameKey(Stored[1], last.prev[1], "basic_id"))
    /\ (UpdateOfKnown /\ TruthyStr(last.detection, "basic_id"))
       => (Stored # <<>> /\ SameKey(Stored[1], last.detection, "basic_id"))

\* C3: a no-fix update of a known id is merged into the entry: the fields present
\* in the frame (signal strength, remote id) overwrite, the drone position and the
\* fields the frame lacks are kept (Scenario A).
C3_NoFixMerges ==
    (UpdateOfKnown /\ ~valid_drone(last.detection))
    => /\ Stored # <<>>
       /\ \A k \in {"rssi", "basic_id"} \cap DOMAIN last.detection :
             SameKey(Stored[1], last.detection, k)
       /\ \A k \in {"rssi", "basic_id"} \cap (DOMAIN last.prev[1] \ DOMAIN last.detection) :
             SameKey(Stored[1], last.prev[1], k)
       /\ \A k \in {"drone_lat", "drone_long"} \cap DOMAIN last.prev[1] :
             SameKey(Stored[1], last.prev[1], k)

\* C4: a valid-fix update always replaces the stored drone position: the entry
\* carries the incoming drone_lat, drone_long and drone_altitude (0 when absent).
C4_ValidFixReplaces ==
    (UpdateCalled /\ valid_drone(last.detection))
    => /\ Stored # <<>>
       /\ SameKey(Stored[1], last.detection, "drone_lat")
       /\ SameKey(Stored[1], last.detection, "drone_long")
       /\ "drone_altitude" \in DOMAIN Stored[1]
       /\ Stored[1]["drone_altitude"] = Get(last.detection, "drone_altitude", 0)

\* C4 witness: a valid fix without altitude replaced an entry at another position
\* that had an altitude
C4_Witness ==
    /\ UpdateOfKnown
    /\ valid_drone(last.detection)
    /\ valid_drone(last.prev[1])
    /\ last.prev[1]["drone_lat"] # last.detection["drone_lat"]
    /\ last.prev[1]["drone_altitude"] # 0
    /\ "drone_altitude" \notin DOMAIN last.detection

-----------------------------------------------------------------------------
(* Claims about registry enrichment *)

\* the cache rows of the updated id the call found, in iteration order
RowsOfMac == {i \in 1..Len(last.cache) : last.cache[i].mac = LastMac}

\* tier 1: the rows with the key (mac, basic_id of the record)
ExactRows ==
    {i \in RowsOfMac : Stored # <<>> /\ TruthyStr(Stored[1], "basic_id")
                        /\ last.cache[i].remote_id = Stored[1]["basic_id"]}

FirstRow == CHOOSE i \in RowsOfMac : \A j \in RowsOfMac : i <= j

PrevHasFaa == last.prev # <<>> /\ "faa_data" \in DOMAIN last.prev[1]

HasFaa(v) == Stored # <<>> /\ "faa_data" \in DOMAIN Stored[1] /\ Stored[1]["faa_data"] = v

ValidFixCalled == UpdateCalled /\ valid_drone(last.detection)

\* the chain exact > any-by-mac > store
TierChain ==
    IF ExactRows # {} THEN \A i \in ExactRows : HasFaa(last.cache[i].faa_response)
    ELSE IF RowsOfMac # {} THEN HasFaa(last.cache[FirstRow].faa_response)
    ELSE IF PrevHasFaa THEN HasFaa(last.prev[1]["faa_data"])
    ELSE TRUE

\* C5 as claimed: for every cache and store content the record gets the payload of
\* the lowest-numbered tier that has one.
C5_Claimed == ValidFixCalled => TierChain

\* C5: the chain holds for a frame that carries no faa_data of its own; a frame's
\* own faa_data is replaced by an exact hit only and is otherwise kept; with no
\* hit and no own data the record has no faa_data.
C5_FirstHitWins ==
    ValidFixCalled =>
        IF "faa_data" \notin DOMAIN last.detection
        THEN /\ TierChain
             /\ (ExactRows = {} /\ RowsOfMac = {} /\ ~PrevHasFaa)
                    => (Stored # <<>> /\ "faa_data" \notin DOMAIN Stored[1])
        ELSE IF ExactRows # {}
             THEN \A i \in ExactRows : HasFaa(last.cache[i].faa_response)
             ELSE HasFaa(last.detection["faa_data"])

\* C5 witness: an exact hit that is not the first row of its mac won over the
\* any-by-mac row and over the entry's own registry data
C5_Witness ==
    /\ ValidFixCalled
    /\ "faa_data" \notin DOMAIN last.detection
    /\ ExactRows # {}
    /\ FirstRow \notin ExactRows
    /\ PrevHasFaa
    /\ HasFaa("P")

\* the cache the call found holds exactly one row of the updated id, (mac, R1) -> P
OnlyR1Row ==
    /\ RowsOfMac # {}
    /\ \A i \in RowsOfMac : last.cache[i].remote_id = "R1" /\ last.cache[i].faa_response = "P"

\* C6 as claimed (Scenario B): with only (mac, R1) -> P cached, a valid-fix update
\* carrying another remote id, or none, gets registry data P.
C6_Claimed ==
    (ValidFixCalled /\ OnlyR1Row /\ Get(last.detection, "basic_id", None) # "R1")
    => HasFaa("P")

\* C6: the same for a frame that carries no faa_data of its own.
C6_ScenarioB ==
    (ValidFixCalled /\ OnlyR1Row /\ Get(last.detection, "basic_id", None) # "R1"
        /\ "faa_data" \notin DOMAIN last.detection)
    => HasFaa("P")

\* C6 witness: the update carried R2 and was enriched with P
C6_Witness ==
    /\ ValidFixCalled
    /\ OnlyR1Row
    /\ Get(last.detection, "basic_id", None) = "R2"
    /\ "faa_data" \notin DOMAIN last.detection
    /\ HasFaa("P")

-----------------------------------------------------------------------------
(* Claims about the stale sweep *)

SweptMac == last.detection["mac"]

-----------------------------------------------------------------------------
(* Claims about the relay client *)

InSend(t) ==
    pc[t] \in {"send_check", "send_lock", "send_unlock", "send_write",
               "send_relock", "send_reunlock", "connect", "connect_sleep"}

\* C8: a relay outage never stops detection recording: a reader that has stored a
\* frame and gone on to send its events always comes back to read the next frame.
C8_OutageNeverStopsReader ==
    \A t \in Readers : [](pc[t] # "read" => <>(pc[t] = "read"))

\* C9: TAKClient.send terminates for every call when the endpoint is unreachable:
\* a send that has begun returns to its caller.
C9_SendTerminates ==
    \A t \in Readers : [](InSend(t) => <>(pc[t] = "send_return"))

\* C10: on a client that has never been connected and whose endpoint has never
\* been away nor dropped a connection, the sends and the connect loop together establish exactly one
\* connection, and it is there before the first event is written.
C10_OneConnection ==
    ~disturbed => (opened <= 1 /\ (wire # <<>> => opened = 1))

\* C11: over one send call an event is written to the peer at most once, whatever
\* writes failed and reconnects succeeded before: no event is on the wire twice.
C11_WrittenAtMostOnce ==
    \A i, j \in 1..Len(wire) : wire[i] = wire[j] => i = j

\* C11 witness: a write failed, the reconnect succeeded and the next attempt of the
\* same send call wrote the event
C11_Witness ==
    \E t \in Readers :
        /\ pc[t] = "send_return"
        /\ attempt[t] >= 1
        /\ wire # <<>>
        /\ wire[Len(wire)] = [role |-> event[t].role, mac |-> event[t].mac,
                              seq |-> event[t].seq]

\* C12: at most one live connection: every connection of the client that is still
\* open is the one self.sock refers to.
C12_OneLiveConnection ==
    \A id \in live : sock = <<id>>

\* C13: while the relay is disabled the relay service holds no connection: the
\* client closed by the settings update stays without a socket.
C13_DisabledHoldsNoConnection ==
    ~TAK_enabled => sock = <<>>

\* min(backoff_factor^k, max_backoff)
CappedPower(k) ==
    IF Power(backoff_factor, k) <= max_backoff THEN Power(backoff_factor, k)
                                               ELSE max_backoff

C16_CloseIdempotent ==
    LET once == TAKClient_close([sock |-> sock, live |-> live]) IN
    /\ once.sock = <<>>
    /\ TAKClient_close(once) = once

\* C16 witness: the settings update closed a client that send had closed already
C16_Witness ==
    /\ last.op = "close"
    /\ last.prev[1].sock = <<>>
    /\ opened >= 1
    /\ sock = <<>>
    /\ \E t \in Readers : pc[t] = "send_relock"

\* C14: an on-demand registry refresh returns an error only when no registry data
\* for the mac exists anywhere: neither a cache entry of the mac nor faa_data on
\* the store's current entry.
C14_ErrorOnlyWithoutData ==
    last.op = "query_faa_error" => (RowsOfMac = {} /\ ~PrevHasFaa)

\* C17: with the relay enabled, an update that stores a valid drone position and
\* has a valid pilot position emits its pilot event after its drone event: a
\* thread that has handed over the drone event gets to hand over the pilot event.
C17_PilotEventEmitted ==
    \A t \in Readers :
        []((event[t].role = "drone" /\ event[t].pilot) => <>(event[t].role = "pilot"))

\* C18: a failure while sending the drone event does not prevent the send attempt
\* for the pilot event: no thread comes back from the drone event of an update
\* with a valid pilot position without going on to the pilot event.
C18_DroneFailureKeepsPilot ==
    [][\A t \in Senders :
          ~(event[t].role = "drone" /\ event[t].pilot /\ pc'[t] = "read")]_vars

-----------------------------------------------------------------------------
(* Claims about the feeds *)

\* the frame read last, and the earlier id-carrying frames of the same serial port
LastFrame == feed_log[Len(feed_log)]

EarlierWithId ==
    {i \in 1..(Len(feed_log) - 1) :
        /\ feed_log[i].via = "serial"
        /\ feed_log[i].port = LastFrame.port
        /\ "mac" \in DOMAIN feed_log[i].frame}

LatestIdOfPort ==
    feed_log[CHOOSE i \in EarlierWithId : \A j \in EarlierWithId : j <= i].frame["mac"]

StoreUntouched ==
    tracked_pairs = LastFrame.before /\ detection_history = LastFrame.history

\* the entries of every id but mac are what they were before the last frame
OnlyTouched(mac) ==
    \A k \in (DOMAIN tracked_pairs \cup DOMAIN LastFrame.before) \ {mac} :
        /\ k \in DOMAIN tracked_pairs
        /\ k \in DOMAIN LastFrame.before
        /\ tracked_pairs[k] = LastFrame.before[k]

\* the last frame had to be recorded: no heartbeat, and a fix unless the variant
\* records no-fix frames too
Recorded ==
    /\ "heartbeat" \notin DOMAIN LastFrame.frame
    /\ valid_drone(LastFrame.frame) \/ variant = "headless"

\* C19: a frame without an id read from a serial port is attributed to the id of
\* the most recent id-carrying frame of that same port, never to an id seen on
\* another port; on a port that has seen no id yet it changes nothing in the store.
C19_PerPortCorrelation ==
    (feed_log # <<>> /\ LastFrame.via = "serial" /\ "mac" \notin DOMAIN LastFrame.frame)
    => IF EarlierWithId = {}
       THEN StoreUntouched
       ELSE /\ OnlyTouched(LatestIdOfPort)
            /\ Recorded =>
                  /\ LatestIdOfPort \in DOMAIN tracked_pairs
                  /\ tracked_pairs[LatestIdOfPort]["mac"] = LatestIdOfPort
                  /\ tracked_pairs[LatestIdOfPort]["drone_lat"] = LastFrame.frame["drone_lat"]
                  /\ Len(detection_history) = Len(LastFrame.history) + 1

\* C19 witness: a frame without an id was stored under the id of its own port
\* while the latest id read from any port was another one
C19_Witness ==
    /\ Len(feed_log) >= 3
    /\ LastFrame.via = "serial"
    /\ "mac" \notin DOMAIN LastFrame.frame
    /\ Recorded
    /\ EarlierWithId # {}
    /\ feed_log[Len(feed_log) - 1].via = "serial"
    /\ feed_log[Len(feed_log) - 1].port # LastFrame.port
    /\ "mac" \in DOMAIN feed_log[Len(feed_log) - 1].frame
    /\ feed_log[Len(feed_log) - 1].frame["mac"] # LatestIdOfPort
    /\ LatestIdOfPort \in DOMAIN tracked_pairs
    /\ tracked_pairs[LatestIdOfPort]["drone_lat"] = LastFrame.frame["drone_lat"]

\* C20: a frame tagged heartbeat is never handed to update_detection, on the serial
\* feed and on the ZMQ feed: it leaves tracked_pairs and detection_history as
\* they were.
C20_HeartbeatDropped ==
    (feed_log # <<>> /\ "heartbeat" \in DOMAIN LastFrame.frame) => StoreUntouched

\* C21: a line that cannot be used as a detection (no valid JSON, or JSON that is
\* no object) is dropped without the reader leaving the Streaming state: the port
\* stays open and its status stays True.
C21_BadLineKeepsStreaming ==
    last.op = "bad_line"
    => /\ ser[last.detection["port"]] = "open"
       /\ serial_connected_status[last.detection["port"]]
       /\ last.detection["port"] \in serial_objs

\* a port is Streaming: open, registered, status True
Streaming(port) ==
    ser[port] = "open" /\ port \in serial_objs /\ serial_connected_status[port]

\* ... or Disconnected: closed, not registered, status False
Disconnected(port) ==
    ser[port] = None /\ port \notin serial_objs /\ ~serial_connected_status[port]

\* C29: the serial reader loops Disconnected -> Opening -> Streaming -> (error) ->
\* Disconnected for ever: every exception that reaches the handlers of the loop
\* leaves the port closed, unregistered and with status False, and if the port
\* stays openable from some time on the reader is Streaming again and again.
C29_ReaderLoop ==
    /\ [](\A port \in Ports : Streaming(port) \/ Disconnected(port))
    /\ \A port \in Ports : (<>[]openable[port]) => []<>Streaming(port)

\* C29 witness: a port that frames were read from is Streaming again, its last
\* step being a successful re-open after the handlers had discarded it
C29_Witness ==
    /\ last.op = "serial_open"
    /\ Streaming(last.detection["port"])
    /\ \E i \in 1..Len(feed_log) : feed_log[i].port = last.detection["port"]

-----------------------------------------------------------------------------
(* Claims about what an update writes *)

\* C25: every update_detection call that writes tracked_pairs[mac], with a fix or
\* without, stores an entry whose last_update is the time of the call.
C25_WriteRefreshesLastUpdate ==
    [][(/\ last'.op = "update_detection"
        /\ TruthyStr(last'.detection, "mac")
        /\ tracked_pairs' # tracked_pairs)
       => Get(tracked_pairs'[last'.detection["mac"]], "last_update", 0) = now]_vars

\* C26: a no-fix update of an id that has no entry creates the entry and appends
\* it to the history.
C26_NoFixCreatesEntry ==
    (UpdateCalled /\ ~valid_drone(last.detection) /\ last.prev = <<>>)
    => /\ Stored # <<>>
       /\ detection_history # <<>>
       /\ detection_history[Len(detection_history)] = Stored[1]

\* the aircraft id of a detection is missing or empty
NoId(detection) == Get(detection, "mac", "") \in {"", None}

\* C27: update_detection with a missing or empty aircraft id changes nothing:
\* store, history and registry cache are as before, and no CoT event is handed
\* to the relay client or written to its connection.
C27_NoIdChangesNothing ==
    [][(last' # last /\ last'.op = "update_detection" /\ NoId(last'.detection))
       => UNCHANGED <<tracked_pairs, detection_history, FAA_CACHE, faa_cache_file, pc, event, wire>>]_vars

\* C27 witness: the call came with an empty id and a valid fix while the relay
\* was enabled, the store held an entry and an event had been written before
C27_Witness ==
    /\ last.op = "update_detection"
    /\ "mac" \in DOMAIN last.detection /\ last.detection["mac"] = ""
    /\ valid_drone(last.detection)
    /\ TAK_enabled
    /\ DOMAIN tracked_pairs = {"AA:BB"}
    /\ Len(detection_history) = 1
    /\ wire # <<>>

\* C28: detection_history is append-only.  Every step leaves it as it was or
\* appends one element; it grows exactly in the update_detection calls that write
\* the store, by the record just stored; refresh, reactivate and sweep leave it alone.
C28_HistoryAppendOnly ==
    [][/\ \/ detection_history' = detection_history
          \/ /\ last'.op = "update_detection"
             /\ TruthyStr(last'.detection, "mac")
             /\ last'.detection["mac"] \in DOMAIN tracked_pairs'
             /\ detection_history' =
                    Append(detection_history, tracked_pairs'[last'.detection["mac"]])
       /\ (last'.op = "update_detection" /\ tracked_pairs' # tracked_pairs)
             => Len(detection_history') = Len(detection_history) + 1
       /\ last'.op \in {"query_faa_ok", "query_faa_error", "reactivate", "sweep_begin",
                        "sweep_step"}
             => detection_history' = detection_history]_vars

\* C28 witness: the history holds two records while the sweep has emptied the store
C28_Witness ==
    /\ last.op = "sweep_step"
    /\ Len(detection_history) = 2
    /\ tracked_pairs = EmptyDict

\* C30: one send call makes at most two write attempts for its event (the first
\* and one resend after a reconnect), and send never raises to its caller.
C30_OneResendNoRaise ==
    [][\A t \in Senders :
          /\ pc'[t] = "send_write" => attempt'[t] <= 1
          /\ ~(pc[t] = "send_write" /\ sock = <<>> /\ pc'[t] = "read")]_vars

\* C22: while the relay is enabled without a usable identity bundle
\* (setup_tls_context returned None) there is no relay client and no CoT event
\* has left the process, over TCP or UDP.
C22_NoBundleNoRelay ==
    (TAK_enabled /\ global_tls_context = None)
    => (cot_messenger = None /\ datagrams = <<>> /\ wire = <<>>)

-----------------------------------------------------------------------------
(* Claims about concurrent updates *)

\* the states reached by applying the calls of the sequences a and b one after
\* another, in every order that keeps the order within a and within b
RECURSIVE Serial(_, _, _)
Serial(st, a, b) ==
    IF a = <<>> /\ b = <<>> THEN {st}
    ELSE (IF a # <<>> THEN Serial(Applied(st, Head(a), now), Tail(a), b) ELSE {})
         \cup (IF b # <<>> THEN Serial(Applied(st, Head(b), now), a, Tail(b)) ELSE {})

SerialStores ==
    {st.store : st \in Serial([store |-> EmptyDict, cache |-> <<>>],
                              issued["ttyACM0"], issued["ttyUSB0"])}

\* C23: concurrent updates are atomic: once the calls issued by the feed threads
\* have all returned, the store is what applying them one after another gives, in
\* some order that keeps each feed's own order.
C23_UpdatesSerializable ==
    (\A port \in Ports : calls[port] = <<>>) => tracked_pairs \in SerialStores

-----------------------------------------------------------------------------
(* Claims about the registry cache file *)

\* C24: the registry cache is write-through and reloadable: replaying
\* faa_cache.csv, later rows overwriting earlier rows of the same key, gives the
\* cache held in memory, every key with the payload of its last write.
C24_ReloadEqualsMemory == load_faa_cache(faa_cache_file) = FAA_CACHE

-----------------------------------------------------------------------------
(* Claims about who changes the store, and the id memory of the ports *)

\* C32: the store is mutated through update_detection only: a registry refresh
\* and a reactivation leave tracked_pairs, keys and fields, as it was.
C32_OnlyUpdateMutates ==
    [][last'.op \in {"query_faa_ok", "query_faa_error", "reactivate"}
       => tracked_pairs' = tracked_pairs]_vars

\* the latest earlier frame of the last frame's port that carried an id
LatestWithId == CHOOSE i \in EarlierWithId : \A j \in EarlierWithId : j <= i

\* the last frame came without id right after the port's id was last given by a
\* heartbeat frame
IdFromHeartbeat ==
    /\ feed_log # <<>>
    /\ LastFrame.via = "serial"
    /\ "mac" \notin DOMAIN LastFrame.frame
    /\ "heartbeat" \notin DOMAIN LastFrame.frame
    /\ EarlierWithId # {}
    /\ "heartbeat" \in DOMAIN feed_log[LatestWithId].frame

\* C38: the id memory of a port is updated by every parsed frame that carries an
\* id, heartbeat frames included: an id-less frame following a heartbeat frame
\* with id M on the same port is attributed to M: what update_detection records
\* of it is recorded under M.
C38_HeartbeatIdRemembered ==
    IdFromHeartbeat
    => /\ LastFrame.port \in DOMAIN last_mac_by_port
       /\ last_mac_by_port[LastFrame.port] = LatestIdOfPort
       /\ Recorded =>
             /\ LatestIdOfPort \in DOMAIN tracked_pairs
             /\ tracked_pairs[LatestIdOfPort]["mac"] = LatestIdOfPort
             /\ tracked_pairs[LatestIdOfPort]["drone_lat"] = LastFrame.frame["drone_lat"]
             /\ detection_history = Append(LastFrame.history, tracked_pairs[LatestIdOfPort])

\* C38 witness: the only id the port has given came in a heartbeat frame, and the
\* id-less frame that followed was stored under it
C38_Witness ==
    /\ IdFromHeartbeat
    /\ \A i \in EarlierWithId : "heartbeat" \in DOMAIN feed_log[i].frame
    /\ LatestIdOfPort \in DOMAIN tracked_pairs
    /\ tracked_pairs[LatestIdOfPort]["drone_lat"] = LastFrame.frame["drone_lat"]
    /\ LatestIdOfPort \notin DOMAIN LastFrame.before

-----------------------------------------------------------------------------
(* Claims about the write-back of enrichment *)

\* the cache key of the record the last update stored
StoredKey == Get(Stored[1], "basic_id", "")

\* after a valid-fix update whose record has registry data, the cache holds that
\* data under (mac, basic_id of the record or "")
WrittenBack ==
    (ValidFixCalled /\ "faa_data" \in DOMAIN Stored[1])
    => /\ CacheHas(FAA_CACHE, LastMac, StoredKey)
       /\ CacheGet(FAA_CACHE, LastMac, StoredKey) = Stored[1]["faa_data"]

\* the update found a cache row under the key of its record
FoundOwnKey == ValidFixCalled /\ CacheHas(last.cache, LastMac, StoredKey)

\* the any-by-mac tier answered: no exact hit, no registry data in the frame
ByMacTier ==
    /\ ValidFixCalled
    /\ ExactRows = {}
    /\ "faa_data" \notin DOMAIN last.detection
    /\ RowsOfMac # {}

\* C39 as claimed: the data written back under (mac, basic_id or "") is what a
\* later update with the same mac and basic_id is enriched with, whatever the
\* basic_id is.
C39_Claimed ==
    /\ WrittenBack
    /\ FoundOwnKey => HasFaa(CacheGet(last.cache, LastMac, StoredKey))
    /\ ByMacTier => HasFaa(last.cache[FirstRow].faa_response)

\* C39: the record's registry data is written back under (mac, basic_id or "");
\* an update whose record has a non-empty basic_id is enriched by the exact tier
\* with what the cache holds under that key; a row written under (mac, "") is never
\* read by the exact tier; the any-by-mac tier returns the payload of the key that
\* was inserted first for the mac.
C39_WriteBack ==
    /\ WrittenBack
    /\ (FoundOwnKey /\ TruthyStr(Stored[1], "basic_id"))
          => HasFaa(CacheGet(last.cache, LastMac, StoredKey))
    /\ ByMacTier => HasFaa(last.cache[FirstRow].faa_response)

\* C39 witness: the second update of an id found the data the first had written
\* back under (mac, R2), behind an older row of the mac, and took it by the exact tier
C39_Witness ==
    /\ ValidFixCalled
    /\ Len(detection_history) = 2
    /\ detection_history[1]["mac"] = LastMac
    /\ Len(last.cache) = 2
    /\ last.cache[1].mac = LastMac /\ last.cache[1].remote_id = "R1"
    /\ last.cache[2].mac = LastMac /\ last.cache[2].remote_id = "R2"
    /\ last.cache[2].faa_response = "F"
    /\ "faa_data" \notin DOMAIN last.detection
    /\ StoredKey = "R2"
    /\ HasFaa("F")

-----------------------------------------------------------------------------
(* Claims about a client with a finite max_retries *)

\* connect has given up: the counter has reached max_retries
GaveUp == self_max_retries # -1 /\ retry_count >= self_max_retries

\* the step is a connection attempt of connect, failed or successful
ConnectAttempt ==
    \E t \in Threads :
        /\ pc[t] = "connect"
        /\ pc'[t] = "connect_sleep" \/ opened' # opened

\* C37: with a finite max_retries = N, connect makes at most N attempts between
\* two successful connections: retry_count never exceeds N, it grows by one per
\* failed attempt and is reset by a success only, and an attempt is made only
\* while it is below N.  Once connect has given up no attempt is made any more,
\* self.sock is never set again and no event is written: every later send drops
\* its event.
C37_GiveUpIsFinal ==
    /\ [](retry_count <= self_max_retries)
    /\ [][/\ ConnectAttempt => retry_count < self_max_retries
          /\ retry_count' # retry_count
                => \/ retry_count' = retry_count + 1 /\ opened' = opened
                   \/ retry_count' = 0 /\ opened' = opened + 1
          /\ GaveUp => /\ GaveUp'
                       /\ opened' = opened
                       /\ wire' = wire
                       /\ sock' = sock \/ sock' = <<>>]_vars

\* C37 witness: after a connection that was lost connect has given up, the
\* endpoint is back, and a send has returned without its event on the wire
C37_Witness ==
    /\ GaveUp
    /\ opened >= 1
    /\ reachable
    /\ sock = <<>>
    /\ \E t \in Readers :
          /\ pc[t] = "send_return"
          /\ event[t].role = "drone"
          /\ \A i \in 1..Len(wire) : wire[i].seq # event[t].seq

-----------------------------------------------------------------------------
(* Claims about the sweep and the feeds running together *)

\* C34: the sweep never removes a fresh entry: the entry a del removes is stale
\* at the time of the del, whatever update ran between the test and the del.
C34_SweepSparesFresh ==
    last.op = "sweep_del"
    => now - Get(last.prev[1], "last_update", 0) > staleThreshold

\* C33: iterating the store never fails because another thread inserted or removed
\* an entry meanwhile: no generate_kml ends in RuntimeError.
C33_IterationNeverFails == last.op # "RuntimeError"

\* C35: a reader leaves Streaming only because of an error on its own port: every
\* step in which a port stops being open is a serial error or a bad line of that port.
OwnPortError(port) ==
    /\ last'.op \in {"serial_io_error", "bad_line"}
    /\ last'.detection["port"] = port

C35_OnlyOwnErrorsClose ==
    [][\A port \in Ports : ser[port] = "open" /\ ser'[port] # "open" => OwnPortError(port)]_vars

\* C31: at most one serial_reader thread runs for any port.
C31_OneReaderPerPort == \A port \in Ports : readers[port] <= 1

\* C36: at most one TAKClient with a running connect loop exists.
C36_OneConnectLoop == connect_loops <= 1

====
